---- MODULE Spec2Model ----
(***************************************************************************)
(* Chart derivation and correlation scoring of cosmicdiary.                *)
(*                                                                         *)
(* Angles are integers counted in thirds of a micro-degree, so that the    *)
(* values round(x, 6) keeps are the multiples of 3 and the values          *)
(* round(x, 2) keeps are the multiples of 30000.  Scores are counted in    *)
(* hundredths (0.05 is 5, 1.0 is 100).                                     *)
(***************************************************************************)
EXTENDS Integers, Sequences, FiniteSets, TLC

VARIABLES
    from_house, offset, target_house,            \* calculate_target_house: arguments, outcome
    planet_longitude, house_cusps, house_number, \* get_house_number: arguments, outcome
    sky,                                         \* what the ephemeris provider answers
    planets_data,                                \* calculate_planetary_positions: outcome
    chart,                                       \* calculate_complete_chart: outcome
    daily,                                       \* calculate_daily_planetary_data: outcome
    aspect_planets, all_aspects,                 \* calculate_all_aspects: argument, outcome
    \* get_aspects_to_house: arguments, outcome
    aspects_house_number, aspects_given, aspects_to_house,
    event_chart, snapshot_chart, snapshot_id,    \* correlate_event_with_snapshot: arguments
    correlation,                                 \* correlate_event_with_snapshot: outcome
    \* collect_events_with_cosmic_state.main: where it stands, its locals
    pc, events_detected, event_index, event_id, events_stored, correlations_created,
    correlation_scores,
    \* the tables of the database
    cosmic_snapshots, events, event_chart_data, event_cosmic_correlations,
    \* whether event_chart_data allows one row only for an event_id
    event_id_unique,
    \* scripts/backfill_event_charts.main: where it stands, its locals
    backfill_pc, events_needing_charts, backfill_index,
    planet_num, retrograde,                      \* api_server.is_retrograde: argument, outcome
    planetary_data,                              \* the table planetary_data of the database
    \* scripts/update_retrograde_status.main: where it stands, its locals
    update_pc, records, record_index, updated_count, error_count

vars == <<from_house, offset, target_house, planet_longitude, house_cusps, house_number,
          sky, planets_data, chart, daily, aspect_planets, all_aspects,
          aspects_house_number, aspects_given, aspects_to_house,
          event_chart, snapshot_chart, snapshot_id, correlation,
          pc, events_detected, event_index, event_id, events_stored, correlations_created,
          correlation_scores,
          cosmic_snapshots, events, event_chart_data, event_cosmic_correlations,
          event_id_unique, backfill_pc, events_needing_charts, backfill_index,
          planet_num, retrograde,
          planetary_data, update_pc, records, record_index, updated_count, error_count>>

\* The value of a variable that the specification at hand does not use.
Unused == [status |-> "unused"]
\* The outcome of a call that has not been made yet, that returned, that raised.
Pending == [status |-> "pending"]
Returned(v) == [status |-> "ok", value |-> v]
Raised(e) == [status |-> "raised", error |-> e]

targetVars == <<from_house, offset, target_house>>
houseVars == <<planet_longitude, house_cusps, house_number>>
TargetUnused == from_house = Unused /\ offset = Unused /\ target_house = Unused
HouseUnused == planet_longitude = Unused /\ house_cusps = Unused /\ house_number = Unused
chartVars == <<sky, planets_data, chart, daily>>
ChartUnused == sky = Unused /\ planets_data = Unused /\ chart = Unused /\ daily = Unused
aspectVars == <<aspect_planets, all_aspects,
                aspects_house_number, aspects_given, aspects_to_house>>
filterVars == <<aspects_house_number, aspects_given, aspects_to_house>>
FilterUnused ==
    aspects_house_number = Unused /\ aspects_given = Unused /\ aspects_to_house = Unused
AspectUnused == aspect_planets = Unused /\ all_aspects = Unused /\ FilterUnused
corrVars == <<event_chart, snapshot_chart, snapshot_id, correlation>>
CorrUnused ==
    event_chart = Unused /\ snapshot_chart = Unused /\ snapshot_id = Unused /\ correlation = Unused
tableVars == <<cosmic_snapshots, events, event_chart_data, event_cosmic_correlations>>
mainVars == <<pc, events_detected, event_index, event_id, events_stored, correlations_created,
              correlation_scores>>
RunUnused ==
    /\ pc = Unused /\ events_detected = Unused /\ event_index = Unused /\ event_id = Unused
    /\ events_stored = Unused /\ correlations_created = Unused /\ correlation_scores = Unused
    /\ cosmic_snapshots = Unused /\ events = Unused /\ event_chart_data = Unused
    /\ event_cosmic_correlations = Unused
backfillVars == <<event_id_unique, backfill_pc, events_needing_charts, backfill_index>>
BackfillUnused ==
    /\ event_id_unique = Unused /\ backfill_pc = Unused
    /\ events_needing_charts = Unused /\ backfill_index = Unused
retroVars == <<planet_num, retrograde>>
RetroUnused == planet_num = Unused /\ retrograde = Unused
updateVars == <<planetary_data, update_pc, records, record_index, updated_count, error_count>>
UpdateUnused ==
    /\ planetary_data = Unused /\ update_pc = Unused /\ records = Unused
    /\ record_index = Unused /\ updated_count = Unused /\ error_count = Unused

(***************************************************************************)
(* Units                                                                   *)
(***************************************************************************)
\* Raw units in one degree: a third of a micro-degree each.
Deg == 3 * 1000000
Full == 360 * Deg
\* round(x, 6) and round(x, 2): the nearest multiple of q, a tie going to the even one.
RoundTo(x, q) ==
    LET lo == (x \div q) * q
        r == x - lo
    IN  IF 2 * r < q THEN lo
        ELSE IF 2 * r > q THEN lo + q
        ELSE IF (lo \div q) % 2 = 0 THEN lo ELSE lo + q
Round6(x) == RoundTo(x, Deg \div 1000000)
Round2(x) == RoundTo(x, Deg \div 100)
Abs(x) == IF x < 0 THEN -x ELSE x
Min(a, b) == IF a < b THEN a ELSE b
Max(a, b) == IF a > b THEN a ELSE b

(***************************************************************************)
(* aspect_calculator.calculate_target_house                                *)
(***************************************************************************)
\* The function with the "- 1" of line 61 left out, as its docstring examples read.
TargetHouseNoMinusOne(from, off) ==
    IF ~(1 <= from /\ from <= 12) THEN Raised("ValueError")
    ELSE IF ~(1 <= off /\ off <= 11) THEN Raised("ValueError")
    ELSE LET target == (from + off) % 12
         IN  Returned(IF target # 0 THEN target ELSE 12)

calculate_target_house(from, off) ==
    IF ~(1 <= from /\ from <= 12) THEN Raised("ValueError")
    ELSE IF ~(1 <= off /\ off <= 11) THEN Raised("ValueError")
    ELSE LET target == (from + off - 1) % 12
         IN  Returned(IF target # 0 THEN target ELSE 12)

(***************************************************************************)
(* astro_calculations.get_house_number                                     *)
(***************************************************************************)
\* The loop of lines 199-209: the first index whose interval holds the longitude.
RECURSIVE HouseScan(_, _, _)
HouseScan(planet_long, cusps, i) ==
    IF i >= 12 THEN 1
    ELSE LET current_cusp == cusps[i + 1] % Full
             next_cusp == cusps[((i + 1) % 12) + 1] % Full
         IN  IF next_cusp < current_cusp
             THEN IF planet_long >= current_cusp \/ planet_long < next_cusp
                  THEN i + 1
                  ELSE HouseScan(planet_long, cusps, i + 1)
             ELSE IF current_cusp <= planet_long /\ planet_long < next_cusp
                  THEN i + 1
                  ELSE HouseScan(planet_long, cusps, i + 1)

\* A boundary error: a longitude on a cusp is left to the house that ends there.
RECURSIVE HouseScanClosedEnd(_, _, _)
HouseScanClosedEnd(planet_long, cusps, i) ==
    IF i >= 12 THEN 1
    ELSE LET current_cusp == cusps[i + 1] % Full
             next_cusp == cusps[((i + 1) % 12) + 1] % Full
         IN  IF next_cusp < current_cusp
             THEN IF planet_long > current_cusp \/ planet_long <= next_cusp
                  THEN i + 1
                  ELSE HouseScanClosedEnd(planet_long, cusps, i + 1)
             ELSE IF current_cusp < planet_long /\ planet_long <= next_cusp
                  THEN i + 1
                  ELSE HouseScanClosedEnd(planet_long, cusps, i + 1)

GetHouseNumberClosedEnd(lon, cusps) ==
    IF Len(cusps) # 12 THEN Raised("ValueError")
    ELSE Returned(HouseScanClosedEnd(lon % Full, cusps, 0))

\* The function with an error, not house 1, when the loop finds no house.
RECURSIVE HouseScanOrNone(_, _, _)
HouseScanOrNone(planet_long, cusps, i) ==
    IF i >= 12 THEN 0
    ELSE LET current_cusp == cusps[i + 1] % Full
             next_cusp == cusps[((i + 1) % 12) + 1] % Full
         IN  IF next_cusp < current_cusp
             THEN IF planet_long >= current_cusp \/ planet_long < next_cusp
                  THEN i + 1
                  ELSE HouseScanOrNone(planet_long, cusps, i + 1)
             ELSE IF current_cusp <= planet_long /\ planet_long < next_cusp
                  THEN i + 1
                  ELSE HouseScanOrNone(planet_long, cusps, i + 1)

GetHouseNumberNoFallback(lon, cusps) ==
    IF Len(cusps) # 12 THEN Raised("ValueError")
    ELSE IF HouseScanOrNone(lon % Full, cusps, 0) = 0 THEN Raised("ValueError")
    ELSE Returned(HouseScanOrNone(lon % Full, cusps, 0))

get_house_number(lon, cusps) ==
    IF Len(cusps) # 12 THEN Raised("ValueError")
    ELSE Returned(HouseScan(lon % Full, cusps, 0))

(***************************************************************************)
(* astro_calculations: tables                                              *)
(***************************************************************************)
\* The keys of PLANETS in their order; Ketu is never queried under its own number.
PLANETS == <<"Sun", "Moon", "Mercury", "Venus", "Mars", "Jupiter", "Saturn", "Rahu", "Ketu">>
PlanetNames == {PLANETS[i] : i \in DOMAIN PLANETS}
\* The bodies the ephemeris is asked about.
Bodies == PlanetNames \ {"Ketu"}

RASI_NAMES ==
    <<"Aries", "Taurus", "Gemini", "Cancer", "Leo", "Virgo",
      "Libra", "Scorpio", "Sagittarius", "Capricorn", "Aquarius", "Pisces">>

NAKSHATRA_SIZE == Full \div 27

EXALTATION ==
    [Sun |-> 10 * Deg, Moon |-> 3 * Deg, Mercury |-> 15 * Deg, Venus |-> 27 * Deg,
     Mars |-> 28 * Deg, Jupiter |-> 5 * Deg, Saturn |-> 20 * Deg]

\* A table whose degrees are 8 degrees from the exaltation degrees, not opposite them.
DebilitationBesideExaltation ==
    [n \in DOMAIN EXALTATION |-> EXALTATION[n] + 8 * Deg]

DEBILITATION ==
    [Sun |-> 190 * Deg, Moon |-> 213 * Deg, Mercury |-> 195 * Deg, Venus |-> 207 * Deg,
     Mars |-> 208 * Deg, Jupiter |-> 185 * Deg, Saturn |-> 200 * Deg]

OWN_SIGNS ==
    [Sun |-> {"Leo"}, Moon |-> {"Cancer"}, Mercury |-> {"Gemini", "Virgo"},
     Venus |-> {"Taurus", "Libra"}, Mars |-> {"Aries", "Scorpio"},
     Jupiter |-> {"Sagittarius", "Pisces"}, Saturn |-> {"Capricorn", "Aquarius"},
     Rahu |-> {}, Ketu |-> {}]

dig_bala_rules ==
    [Sun |-> {10}, Moon |-> {4}, Mars |-> {10}, Mercury |-> {1}, Jupiter |-> {1},
     Venus |-> {4}, Saturn |-> {7}, Rahu |-> {}, Ketu |-> {}]

(***************************************************************************)
(* astro_calculations: position classifier                                 *)
(***************************************************************************)
degrees_to_rasi(longitude) ==
    LET lon == longitude % Full
        rasi_number == (lon \div (30 * Deg)) + 1
    IN  [name |-> RASI_NAMES[rasi_number], number |-> rasi_number]

\* The nakshatra without the normalisation of line 107.
NakshatraNotNormalised(longitude) ==
    LET lon == longitude
        nakshatra_num == Min((lon \div NAKSHATRA_SIZE) + 1, 27)
        pada == ((lon % NAKSHATRA_SIZE) \div (NAKSHATRA_SIZE \div 4)) + 1
    IN  [number |-> nakshatra_num, pada |-> Min(pada, 4)]

degrees_to_nakshatra(longitude) ==
    LET lon == longitude % Full
        nakshatra_num == Min((lon \div NAKSHATRA_SIZE) + 1, 27)
        pada == ((lon % NAKSHATRA_SIZE) \div (NAKSHATRA_SIZE \div 4)) + 1
    IN  [number |-> nakshatra_num, pada |-> Min(pada, 4)]

(***************************************************************************)
(* The ephemeris provider (swisseph), as the code uses it                  *)
(*                                                                         *)
(* A sky (eph) is what the provider answers at one instant and place:      *)
(*   bodies[b]  status ("ok"; "none": a result that is falsy; "raise"),    *)
(*              tropical longitude, latitude, speed in longitude, and the  *)
(*              status and tropical longitude a quarter of a day later;    *)
(*   ayanamsa, the tropical ascendant ascmc0, the 12 tropical cusps, and   *)
(*   whether swe.houses answers at all.                                    *)
(***************************************************************************)
FLG_SIDEREAL == "FLG_SIDEREAL"
FLG_SWIEPH == "FLG_SWIEPH"

\* swe.calc_ut(jd, body, flags) and swe.calc_ut(jd + 0.25, body, flags).  The library
\* answers a sidereal longitude in [0, 360); a body with a field "sidereal" stands
\* for a provider that answers that value as it is, whatever its range.
calc_ut(eph, body, flags) ==
    LET b == eph.bodies[body]
    IN  IF b.status = "raise" THEN Raised("Error")
        ELSE IF b.status = "none" THEN Returned(<<>>)
        ELSE Returned(<<[longitude |-> IF FLG_SIDEREAL \in flags
                                       THEN IF "sidereal" \in DOMAIN b
                                            THEN b.sidereal
                                            ELSE (b.tropical - eph.ayanamsa) % Full
                                       ELSE b.tropical,
                         latitude |-> b.latitude,
                         speed |-> b.speed]>>)

calc_ut_later(eph, body, flags) ==
    LET b == eph.bodies[body]
    IN  IF b.later_status = "raise" THEN Raised("Error")
        ELSE IF b.later_status = "none" THEN Returned(<<>>)
        ELSE Returned(<<[longitude |-> IF FLG_SIDEREAL \in flags
                                       THEN (b.later_tropical - eph.ayanamsa) % Full
                                       ELSE b.later_tropical]>>)

(***************************************************************************)
(* astro_calculations.calculate_planetary_positions                        *)
(***************************************************************************)
\* Lines 236-253: Ketu, from a second query of Rahu.  <<>> when the planet is skipped.
KetuPosition(eph, cusps, flags) ==
    LET rahu_result == calc_ut(eph, "Rahu", flags)
    IN  IF rahu_result.status # "ok" \/ rahu_result.value = <<>> THEN <<>>
        ELSE LET rahu_long == rahu_result.value[1].longitude
                 ketu_long == (rahu_long + 180 * Deg) % Full
                 house == get_house_number(ketu_long, cusps)
             IN  IF house.status # "ok" THEN <<>>
                 ELSE <<[name |-> "Ketu",
                         longitude |-> Round6(ketu_long),
                         latitude |-> 0,
                         speed |-> 0,
                         is_retrograde |-> TRUE,
                         rasi |-> degrees_to_rasi(ketu_long),
                         nakshatra |-> degrees_to_nakshatra(ketu_long),
                         house |-> house.value]>>

\* The flag taken from the speed alone, for every body.
RetrogradeFlagBySpeed(planet_name, speed) == speed < 0

\* Lines 265-274: the retrograde flag of a body that was queried.
RetrogradeFlag(planet_name, speed) ==
    IF planet_name = "Rahu" THEN TRUE
    ELSE IF planet_name \in {"Sun", "Moon"} THEN FALSE
    ELSE speed < 0

\* Lines 255-285: any other planet.
BodyPosition(eph, planet_name, cusps) ==
    LET result == calc_ut(eph, planet_name, {FLG_SIDEREAL, FLG_SWIEPH})
    IN  IF result.status # "ok" \/ result.value = <<>> THEN <<>>
        ELSE LET longitude == result.value[1].longitude
                 latitude == result.value[1].latitude
                 speed == result.value[1].speed
                 house == get_house_number(longitude, cusps)
             IN  IF house.status # "ok" THEN <<>>
                 ELSE <<[name |-> planet_name,
                         longitude |-> Round6(longitude),
                         latitude |-> Round6(latitude),
                         speed |-> Round6(speed),
                         is_retrograde |-> RetrogradeFlag(planet_name, speed),
                         rasi |-> degrees_to_rasi(longitude),
                         nakshatra |-> degrees_to_nakshatra(longitude),
                         house |-> house.value]>>

\* One failing body loses every planet, as if the try of line 232 were round the loop.
PositionsLostTogether(eph, planet_name, cusps) ==
    IF \E body \in Bodies : eph.bodies[body].status # "ok" THEN <<>>
    ELSE IF planet_name = "Ketu"
    THEN KetuPosition(eph, cusps, {FLG_SIDEREAL, FLG_SWIEPH})
    ELSE BodyPosition(eph, planet_name, cusps)

PlanetPosition(eph, planet_name, cusps) ==
    IF planet_name = "Ketu"
    THEN KetuPosition(eph, cusps, {FLG_SIDEREAL, FLG_SWIEPH})
    ELSE BodyPosition(eph, planet_name, cusps)

RECURSIVE PositionsFrom(_, _, _)
PositionsFrom(eph, cusps, i) ==
    IF i > Len(PLANETS) THEN <<>>
    ELSE PlanetPosition(eph, PLANETS[i], cusps) \o PositionsFrom(eph, cusps, i + 1)

calculate_planetary_positions(eph, cusps) == PositionsFrom(eph, cusps, 1)

(***************************************************************************)
(* astro_calculations.calculate_planetary_strengths                        *)
(***************************************************************************)
\* Lines 318-320, 327-329, 363-365: the distance of two longitudes round the circle.
CircularDiff(a, b) ==
    LET diff == Abs((a % Full) - (b % Full))
    IN  IF diff > 180 * Deg THEN Full - diff ELSE diff

\* The score without the clamp of line 388.
StrengthScoreNoClamp(is_exalted, is_debilitated, is_own_sign, dig_bala, is_combusted) ==
    50 + (IF is_exalted THEN 30 ELSE IF is_debilitated THEN -30 ELSE 0)
       + (IF is_own_sign THEN 20 ELSE 0)
       + (IF dig_bala THEN 15 ELSE 0)
       - (IF is_combusted THEN 20 ELSE 0)

\* The score without the deduction of lines 385-386.
StrengthScoreNoCombustion(is_exalted, is_debilitated, is_own_sign, dig_bala, is_combusted) ==
    Max(0, Min(100, 50 + (IF is_exalted THEN 30 ELSE IF is_debilitated THEN -30 ELSE 0)
                       + (IF is_own_sign THEN 20 ELSE 0)
                       + (IF dig_bala THEN 15 ELSE 0)))

\* Lines 370-388, in hundredths.
StrengthScore(is_exalted, is_debilitated, is_own_sign, dig_bala, is_combusted) ==
    LET base == 50
        s1 == IF is_exalted THEN base + 30
              ELSE IF is_debilitated THEN base - 30 ELSE base
        s2 == IF is_own_sign THEN s1 + 20 ELSE s1
        s3 == IF dig_bala THEN s2 + 15 ELSE s2
        s4 == IF is_combusted THEN s3 - 20 ELSE s3
    IN  Max(0, Min(100, s4))

\* The strength record with a planet at the orb itself taken as combusted.
StrengthOfClosedOrb(planet, planets) ==
    LET planet_name == planet.name
        longitude == planet.longitude
        rasi_name == planet.rasi.name
        is_exalted ==
            IF planet_name \in DOMAIN EXALTATION
            THEN CircularDiff(longitude, EXALTATION[planet_name]) <= 5 * Deg
            ELSE FALSE
        is_debilitated ==
            IF planet_name \in DOMAIN DEBILITATION
            THEN CircularDiff(longitude, DEBILITATION[planet_name]) <= 5 * Deg
            ELSE FALSE
        is_own_sign ==
            IF planet_name \in DOMAIN OWN_SIGNS
            THEN rasi_name \in OWN_SIGNS[planet_name]
            ELSE FALSE
        dig_bala ==
            IF planet_name \in DOMAIN dig_bala_rules
            THEN planet.house \in dig_bala_rules[planet_name]
            ELSE FALSE
        suns == {i \in DOMAIN planets : planets[i].name = "Sun"}
        is_combusted ==
            IF planet_name \notin {"Sun", "Rahu", "Ketu"} /\ suns # {}
            THEN LET sun_long == planets[CHOOSE i \in suns : \A j \in suns : i <= j].longitude
                     orb == IF planet_name \in {"Mercury", "Venus"}
                            THEN 7 * Deg ELSE (85 * Deg) \div 10
                 IN  CircularDiff(longitude, sun_long) <= orb
            ELSE FALSE
    IN  [exalted |-> is_exalted,
         debilitated |-> is_debilitated,
         own_sign |-> is_own_sign,
         dig_bala |-> dig_bala,
         combusted |-> is_combusted,
         strength_score |->
             StrengthScore(is_exalted, is_debilitated, is_own_sign, dig_bala, is_combusted)]

\* Lines 309-397: the strength record of one entry of the positions list.
StrengthOf(planet, planets) ==
    LET planet_name == planet.name
        longitude == planet.longitude
        rasi_name == planet.rasi.name
        is_exalted ==
            IF planet_name \in DOMAIN EXALTATION
            THEN CircularDiff(longitude, EXALTATION[planet_name]) <= 5 * Deg
            ELSE FALSE
        is_debilitated ==
            IF planet_name \in DOMAIN DEBILITATION
            THEN CircularDiff(longitude, DEBILITATION[planet_name]) <= 5 * Deg
            ELSE FALSE
        is_own_sign ==
            IF planet_name \in DOMAIN OWN_SIGNS
            THEN rasi_name \in OWN_SIGNS[planet_name]
            ELSE FALSE
        dig_bala ==
            IF planet_name \in DOMAIN dig_bala_rules
            THEN planet.house \in dig_bala_rules[planet_name]
            ELSE FALSE
        suns == {i \in DOMAIN planets : planets[i].name = "Sun"}
        is_combusted ==
            IF planet_name \notin {"Sun", "Rahu", "Ketu"} /\ suns # {}
            THEN LET sun_long == planets[CHOOSE i \in suns : \A j \in suns : i <= j].longitude
                     orb == IF planet_name \in {"Mercury", "Venus"}
                            THEN 7 * Deg ELSE (85 * Deg) \div 10
                 IN  CircularDiff(longitude, sun_long) < orb
            ELSE FALSE
    IN  [exalted |-> is_exalted,
         debilitated |-> is_debilitated,
         own_sign |-> is_own_sign,
         dig_bala |-> dig_bala,
         combusted |-> is_combusted,
         strength_score |->
             StrengthScore(is_exalted, is_debilitated, is_own_sign, dig_bala, is_combusted)]

\* Records for the planets of the dignity tables only, the nodes left out.
StrengthsOfDignifiedOnly(planets) ==
    [n \in {planets[i].name : i \in DOMAIN planets} \cap DOMAIN EXALTATION |->
        StrengthOf(planets[CHOOSE i \in DOMAIN planets : planets[i].name = n], planets)]

calculate_planetary_strengths(planets) ==
    [n \in {planets[i].name : i \in DOMAIN planets} |->
        StrengthOf(planets[CHOOSE i \in DOMAIN planets :
                              planets[i].name = n
                              /\ \A j \in DOMAIN planets : planets[j].name = n => j <= i],
                   planets)]

(***************************************************************************)
(* astro_calculations.calculate_ascendant, calculate_complete_chart        *)
(***************************************************************************)
calculate_ascendant(eph) ==
    IF ~eph.houses_ok THEN Raised("ValueError")
    ELSE LET sidereal_asc == (eph.ascmc0 - eph.ayanamsa) % Full
             asc_rasi == degrees_to_rasi(sidereal_asc)
         IN  Returned([ascendant_degree |-> Round6(sidereal_asc),
                       ascendant_rasi |-> asc_rasi.name,
                       ascendant_rasi_number |-> asc_rasi.number,
                       ayanamsa |-> Round6(eph.ayanamsa)])

calculate_complete_chart(eph) ==
    LET asc_data == calculate_ascendant(eph)
    IN  IF asc_data.status # "ok" THEN Raised("ValueError")
        ELSE
        LET ayanamsa == asc_data.value.ayanamsa
            house_cusps_sidereal ==
                [i \in 1..12 |-> Round6(((eph.cusps[i] % Full) - ayanamsa) % Full)]
            planets == calculate_planetary_positions(eph, house_cusps_sidereal)
            strengths == calculate_planetary_strengths(planets)
            planetary_positions ==
                [n \in {planets[i].name : i \in DOMAIN planets} |->
                    LET planet == planets[CHOOSE i \in DOMAIN planets : planets[i].name = n]
                    IN  [longitude |-> planet.longitude,
                         latitude |-> planet.latitude,
                         speed |-> planet.speed,
                         is_retrograde |-> planet.is_retrograde,
                         rasi |-> planet.rasi,
                         nakshatra |-> planet.nakshatra,
                         house |-> planet.house]]
        IN  Returned([ascendant_degree |-> asc_data.value.ascendant_degree,
                      ascendant_rasi |-> asc_data.value.ascendant_rasi,
                      ascendant_rasi_number |-> asc_data.value.ascendant_rasi_number,
                      house_cusps |-> house_cusps_sidereal,
                      ayanamsa |-> ayanamsa,
                      planetary_positions |-> planetary_positions,
                      planetary_strengths |-> strengths])

(***************************************************************************)
(* api_server: the daily planetary data                                    *)
(***************************************************************************)
\* Lines 129-179.  The outcome is a flag, or the ephemeris' exception.
is_retrograde(eph, planet_name) ==
    IF planet_name \in {"Rahu", "Ketu"} THEN Returned(TRUE)
    ELSE IF planet_name \in {"Sun", "Moon"} THEN Returned(FALSE)
    ELSE LET flags == {FLG_SIDEREAL, FLG_SWIEPH}
             result1 == calc_ut(eph, planet_name, flags)
             result2 == calc_ut_later(eph, planet_name, flags)
         IN  IF result1.status # "ok" THEN result1
             ELSE IF result1.value = <<>> THEN Returned(FALSE)
             ELSE IF result2.status # "ok" THEN result2
             ELSE IF result2.value = <<>> THEN Returned(FALSE)
             ELSE LET long1 == result1.value[1].longitude
                      long2 == result2.value[1].longitude
                      diff0 == long2 - long1
                      diff == IF diff0 > 180 * Deg THEN diff0 - Full
                              ELSE IF diff0 < 0 - 180 * Deg THEN diff0 + Full
                              ELSE diff0
                      \* diff / 0.25 is four times diff, exactly, and of the sign of diff
                      speed_per_day_negative == diff < 0
                  IN  Returned(speed_per_day_negative)

\* Lines 182-228.  <<>> stands for None.
calculate_planet_position(eph, planet_name) ==
    IF planet_name = "Ketu"
    THEN LET rahu_result == calc_ut(eph, "Rahu", {FLG_SIDEREAL, FLG_SWIEPH})
         IN  IF rahu_result.status # "ok" THEN rahu_result
             ELSE IF rahu_result.value = <<>> THEN Returned(<<>>)
             ELSE LET rahu_long == rahu_result.value[1].longitude
                      ketu_long == (rahu_long + 180 * Deg) % Full
                  IN  Returned(<<[name |-> "Ketu",
                                  longitude |-> Round2(ketu_long),
                                  latitude |-> 0,
                                  is_retrograde |-> TRUE,
                                  nakshatra |-> degrees_to_nakshatra(ketu_long).number,
                                  rasi |-> degrees_to_rasi(ketu_long)]>>)
    ELSE LET result == calc_ut(eph, planet_name, {FLG_SIDEREAL, FLG_SWIEPH})
         IN  IF result.status # "ok" THEN result
             ELSE IF result.value = <<>> THEN Returned(<<>>)
             ELSE LET longitude == result.value[1].longitude
                      latitude == result.value[1].latitude
                      is_retro == is_retrograde(eph, planet_name)
                  IN  IF is_retro.status # "ok" THEN is_retro
                      ELSE Returned(<<[name |-> planet_name,
                                       longitude |-> Round2(longitude),
                                       latitude |-> Round2(latitude),
                                       is_retrograde |-> is_retro.value,
                                       nakshatra |-> degrees_to_nakshatra(longitude).number,
                                       rasi |-> degrees_to_rasi(longitude)]>>)

\* Lines 231-254: the planets list, or the exception that a query let through.
RECURSIVE DailyFrom(_, _)
DailyFrom(eph, i) ==
    IF i > Len(PLANETS) THEN Returned(<<>>)
    ELSE LET planet_data == calculate_planet_position(eph, PLANETS[i])
         IN  IF planet_data.status # "ok" THEN planet_data
             ELSE LET rest == DailyFrom(eph, i + 1)
                  IN  IF rest.status # "ok" THEN rest
                      ELSE Returned(planet_data.value \o rest.value)

calculate_daily_planetary_data(eph) == DailyFrom(eph, 1)

(***************************************************************************)
(* aspect_calculator                                                       *)
(*                                                                         *)
(* A dict is a function from its keys; d.get(k) of a missing key is the    *)
(* absence of k from DOMAIN d.  Dicts are gone through in the order of     *)
(* PLANETS, the order in which calculate_complete_chart fills them.        *)
(***************************************************************************)
ASPECT_RULES ==
    [Jupiter |-> <<5, 7, 9>>, Saturn |-> <<3, 7, 10>>, Mars |-> <<4, 7, 8>>,
     Rahu |-> <<3, 7, 11>>, Ketu |-> <<3, 7, 11>>,
     Sun |-> <<7>>, Moon |-> <<7>>, Mercury |-> <<7>>, Venus |-> <<7>>]

get_aspect_type_name(planet_name, off) ==
    LET ordinal_map ==
            [o \in 3..11 |-> <<"3rd", "4th", "5th", "6th", "7th", "8th", "9th", "10th", "11th">>[o - 2]]
    IN  IF off = 7 THEN "drishti_7th"
        ELSE IF off \in DOMAIN ordinal_map THEN "drishti_" \o ordinal_map[off]
        ELSE "drishti_" \o ToString(off) \o "th"

\* Lines 205-225: the aspects of one planet, one for each of its offsets.
RECURSIVE AspectsOfPlanet(_, _, _)
AspectsOfPlanet(planet_name, planet_data, k) ==
    IF k > Len(ASPECT_RULES[planet_name]) THEN <<>>
    ELSE LET off == ASPECT_RULES[planet_name][k]
         IN  <<[planet |-> planet_name,
                from_house |-> planet_data.house,
                to_house |-> calculate_target_house(planet_data.house, off).value,
                aspect_type |-> get_aspect_type_name(planet_name, off),
                planet_rasi |-> IF "rasi" \in DOMAIN planet_data
                                   /\ "name" \in DOMAIN planet_data.rasi
                                THEN planet_data.rasi.name ELSE "Unknown",
                planet_longitude |-> IF "longitude" \in DOMAIN planet_data
                                     THEN planet_data.longitude ELSE 0,
                is_retrograde |-> IF "is_retrograde" \in DOMAIN planet_data
                                  THEN planet_data.is_retrograde ELSE FALSE]>>
             \o AspectsOfPlanet(planet_name, planet_data, k + 1)

\* Lines 169-177: the planets that are gone through and not skipped.
AspectingPlanets(planet_dict) ==
    {n \in DOMAIN planet_dict \cap DOMAIN ASPECT_RULES : "house" \in DOMAIN planet_dict[n]}

RECURSIVE AspectsFrom(_, _)
AspectsFrom(planet_dict, i) ==
    IF i > Len(PLANETS) THEN <<>>
    ELSE (IF PLANETS[i] \in AspectingPlanets(planet_dict)
          THEN AspectsOfPlanet(PLANETS[i], planet_dict[PLANETS[i]], 1)
          ELSE <<>>)
         \o AspectsFrom(planet_dict, i + 1)

\* The aspects with those that land on a house already aspected left out, as the
\* docstring's example count of 7 would have it.
RECURSIVE MergeByTargetHouse(_)
MergeByTargetHouse(aspects) ==
    IF aspects = <<>> THEN <<>>
    ELSE LET front == MergeByTargetHouse(SubSeq(aspects, 1, Len(aspects) - 1))
             last == aspects[Len(aspects)]
         IN  IF \E j \in DOMAIN front : front[j].to_house = last.to_house
             THEN front ELSE Append(front, last)

AllAspectsMerged(planet_dict) ==
    IF \E n \in AspectingPlanets(planet_dict) :
          ~(1 <= planet_dict[n].house /\ planet_dict[n].house <= 12)
    THEN Raised("ValueError")
    ELSE Returned(MergeByTargetHouse(AspectsFrom(planet_dict, 1)))

calculate_all_aspects(planet_dict) ==
    IF \E n \in AspectingPlanets(planet_dict) :
          ~(1 <= planet_dict[n].house /\ planet_dict[n].house <= 12)
    THEN Raised("ValueError")
    ELSE Returned(AspectsFrom(planet_dict, 1))

\* The filter without the test of lines 277-278.
AspectsToHouseUnchecked(house_number_asked, aspects) ==
    Returned(SelectSeq(aspects, LAMBDA aspect : aspect.to_house = house_number_asked))

\* Lines 277-280.
get_aspects_to_house(house_number_asked, aspects) ==
    IF ~(1 <= house_number_asked /\ house_number_asked <= 12) THEN Raised("ValueError")
    ELSE Returned(SelectSeq(aspects, LAMBDA aspect : aspect.to_house = house_number_asked))

(***************************************************************************)
(* correlation_analyzer                                                    *)
(*                                                                         *)
(* Scores are in hundredths: 0.05 is 5 and the cap 1.0 is 100.  A house   *)
(* of None is 0 and a rasi name of None is "", which the code's truth      *)
(* tests treat alike.  The retrograde matches, which the code takes from a *)
(* set, are listed in the order of PLANETS; nothing below depends on it.   *)
(***************************************************************************)
Get(d, key, default) == IF key \in DOMAIN d THEN d[key] ELSE default

\* The retrograde planets without the nodes, as if their flag were taken from a speed.
RetrogradePlanetsWithoutNodes(chart_data) ==
    LET planetary_positions == Get(chart_data, "planetary_positions", <<>>)
    IN  {n \in DOMAIN planetary_positions \ {"Rahu", "Ketu"} :
            Get(planetary_positions[n], "is_retrograde", FALSE)}

get_retrograde_planets(chart_data) ==
    LET planetary_positions == Get(chart_data, "planetary_positions", <<>>)
    IN  {n \in DOMAIN planetary_positions :
            Get(planetary_positions[n], "is_retrograde", FALSE)}

get_planet_house(planet_data) ==
    IF "house" \in DOMAIN planet_data
       /\ 1 <= planet_data.house /\ planet_data.house <= 12
    THEN planet_data.house ELSE 0

get_planet_rasi(planet_data) ==
    IF "rasi" \in DOMAIN planet_data THEN Get(planet_data.rasi, "name", "") ELSE ""

RECURSIVE SumScores(_)
SumScores(correlations) ==
    IF correlations = <<>> THEN 0
    ELSE correlations[Len(correlations)].score
         + SumScores(SubSeq(correlations, 1, Len(correlations) - 1))

\* The sum of the scores, without the cap of line 109.
ScoreWithoutCap(correlations) == SumScores(correlations)

calculate_correlation_score(correlations) == Min(SumScores(correlations), 100)

\* The bands with a score on a boundary left in the band below.
CategorizeAboveBoundary(score) ==
    IF score > 70 THEN "Very High"
    ELSE IF score > 50 THEN "High"
    ELSE IF score > 30 THEN "Medium"
    ELSE "Low"

categorize_correlation_strength(score) ==
    IF score >= 70 THEN "Very High"
    ELSE IF score >= 50 THEN "High"
    ELSE IF score >= 30 THEN "Medium"
    ELSE "Low"

\* a) lines 216-235
LagnaMatches(ev, snap) ==
    LET event_lagna_rasi == Get(ev, "ascendant_rasi", "")
        snapshot_lagna_rasi == Get(snap, "lagna_rasi", "")
    IN  IF event_lagna_rasi # "" /\ snapshot_lagna_rasi # ""
           /\ event_lagna_rasi = snapshot_lagna_rasi
        THEN <<[type |-> "lagna_match", score |-> 30,
                details |-> [lagna_rasi |-> event_lagna_rasi,
                             event_lagna_degree |-> Get(ev, "ascendant_degree", 0),
                             snapshot_lagna_degree |-> Get(snap, "lagna_degree", 0)]]>>
        ELSE <<>>

\* b) lines 240-256
RECURSIVE RetrogradeMatches(_, _)
RetrogradeMatches(matching_retrograde, i) ==
    IF i > Len(PLANETS) THEN <<>>
    ELSE (IF PLANETS[i] \in matching_retrograde
          THEN <<[type |-> "retrograde_match", score |-> 10,
                  details |-> [planet |-> PLANETS[i]]]>>
          ELSE <<>>)
         \o RetrogradeMatches(matching_retrograde, i + 1)

planet_names == <<"Sun", "Moon", "Mars", "Mercury", "Jupiter", "Venus", "Saturn", "Rahu", "Ketu">>

\* c) lines 263-285
RECURSIVE HouseMatches(_, _, _)
HouseMatches(event_positions, snapshot_positions, i) ==
    IF i > Len(planet_names) THEN <<>>
    ELSE LET planet_name == planet_names[i]
             rest == HouseMatches(event_positions, snapshot_positions, i + 1)
         IN  IF planet_name \notin DOMAIN event_positions
                \/ planet_name \notin DOMAIN snapshot_positions
             THEN rest
             ELSE LET event_house == get_planet_house(event_positions[planet_name])
                      snapshot_house == get_planet_house(snapshot_positions[planet_name])
                  IN  IF event_house # 0 /\ snapshot_house # 0
                         /\ event_house = snapshot_house
                      THEN <<[type |-> "planetary_house_match", score |-> 5,
                              details |-> [planet |-> planet_name, house |-> event_house]]>>
                           \o rest
                      ELSE rest

\* The key without the target house: aspects are matched by planet and type alone.
MatchKeyWithoutHouse(aspect) == <<aspect.planet, aspect.aspect_type>>

\* d) lines 301-324: the event's aspects that some aspect of the snapshot
\* matches, each key once.
MatchKey(aspect) == <<aspect.planet, aspect.to_house, aspect.aspect_type>>

RECURSIVE AspectMatchesFrom(_, _, _, _)
AspectMatchesFrom(event_aspects, snapshot_aspects, i, aspect_matches) ==
    IF i > Len(event_aspects) THEN <<>>
    ELSE LET event_aspect == event_aspects[i]
         IN  IF (\E j \in DOMAIN snapshot_aspects :
                    MatchKey(snapshot_aspects[j]) = MatchKey(event_aspect))
                /\ MatchKey(event_aspect) \notin aspect_matches
             THEN <<[type |-> "aspect_match", score |-> 15,
                     details |-> [planet |-> event_aspect.planet,
                                  aspect_type |-> event_aspect.aspect_type,
                                  target_house |-> event_aspect.to_house]]>>
                  \o AspectMatchesFrom(event_aspects, snapshot_aspects, i + 1,
                                       aspect_matches \cup {MatchKey(event_aspect)})
             ELSE AspectMatchesFrom(event_aspects, snapshot_aspects, i + 1, aspect_matches)

\* d) lines 290-327: nothing is added when either calculation raises.
AspectMatches(event_positions, snapshot_positions) ==
    LET event_aspects == calculate_all_aspects(event_positions)
        snapshot_aspects == calculate_all_aspects(snapshot_positions)
    IN  IF event_aspects.status = "ok" /\ snapshot_aspects.status = "ok"
        THEN AspectMatchesFrom(event_aspects.value, snapshot_aspects.value, 1, {})
        ELSE <<>>

\* e) without the test of lines 344-350: a rasi match also for a planet matched by house.
RECURSIVE RasiMatchesAlways(_, _, _, _)
RasiMatchesAlways(event_positions, snapshot_positions, correlations, i) ==
    IF i > Len(planet_names) THEN <<>>
    ELSE LET planet_name == planet_names[i]
             rest == RasiMatchesAlways(event_positions, snapshot_positions, correlations, i + 1)
         IN  IF planet_name \notin DOMAIN event_positions
                \/ planet_name \notin DOMAIN snapshot_positions
             THEN rest
             ELSE LET event_rasi == get_planet_rasi(event_positions[planet_name])
                      snapshot_rasi == get_planet_rasi(snapshot_positions[planet_name])
                  IN  IF event_rasi # "" /\ snapshot_rasi # "" /\ event_rasi = snapshot_rasi
                      THEN <<[type |-> "planetary_rasi_match", score |-> 5,
                              details |-> [planet |-> planet_name, rasi |-> event_rasi]]>>
                           \o rest
                      ELSE rest

\* e) lines 332-362
RECURSIVE RasiMatches(_, _, _, _)
RasiMatches(event_positions, snapshot_positions, correlations, i) ==
    IF i > Len(planet_names) THEN <<>>
    ELSE LET planet_name == planet_names[i]
             rest == RasiMatches(event_positions, snapshot_positions, correlations, i + 1)
         IN  IF planet_name \notin DOMAIN event_positions
                \/ planet_name \notin DOMAIN snapshot_positions
             THEN rest
             ELSE LET event_rasi == get_planet_rasi(event_positions[planet_name])
                      snapshot_rasi == get_planet_rasi(snapshot_positions[planet_name])
                      house_match_exists ==
                          \E k \in DOMAIN correlations :
                              /\ correlations[k].type = "planetary_house_match"
                              /\ correlations[k].details.planet = planet_name
                  IN  IF event_rasi # "" /\ snapshot_rasi # "" /\ event_rasi = snapshot_rasi
                         /\ ~house_match_exists
                      THEN <<[type |-> "planetary_rasi_match", score |-> 5,
                              details |-> [planet |-> planet_name, rasi |-> event_rasi]]>>
                           \o rest
                      ELSE rest

\* Lines 364-374: the result made of the factors found.
CorrelationResult(correlations, snap_id) ==
    [snapshot_id |-> snap_id,
     correlations |-> correlations,
     correlation_score |-> calculate_correlation_score(correlations),
     total_matches |-> Len(correlations),
     strength |-> categorize_correlation_strength(calculate_correlation_score(correlations))]

\* Lines 207-365: the factors, those of e) after and in view of those of a) to d).
CorrelationsFrom(event_positions, snapshot_positions, upto_aspects, snap_id) ==
    CorrelationResult(
        upto_aspects \o RasiMatches(event_positions, snapshot_positions, upto_aspects, 1),
        snap_id)

CorrelateCharts(ev, snap, event_positions, snapshot_positions, snap_id) ==
    CorrelationsFrom(
        event_positions, snapshot_positions,
        LagnaMatches(ev, snap)
            \o RetrogradeMatches(get_retrograde_planets(ev) \cap get_retrograde_planets(snap), 1)
            \o HouseMatches(event_positions, snapshot_positions, 1)
            \o AspectMatches(event_positions, snapshot_positions),
        snap_id)

correlate_event_with_snapshot(ev, snap, snap_id) ==
    CorrelateCharts(ev, snap,
                    Get(ev, "planetary_positions", <<>>),
                    Get(snap, "planetary_positions", <<>>),
                    snap_id)

(***************************************************************************)
(* Inputs of the specifications of the pure functions                      *)
(***************************************************************************)
\* How far outside 1..12 (houses) and 1..11 (offsets) the arguments tried go.
MaxOutOfRange == 2
\* Cusp lists tried start at 0, 75, 150, ... degrees: MaxStart + 1 of them.
MaxStart == 3
\* Longitudes tried lie up to MaxDelta raw units on either side of every cusp.
MaxDelta == 2

HouseArgs == (1 - MaxOutOfRange)..(12 + MaxOutOfRange)
OffsetArgs == (1 - MaxOutOfRange)..(11 + MaxOutOfRange)

\* Twelve cusps 30 degrees apart, the first at s.
EqualCusps(s) == [k \in 1..12 |-> (s + 30 * Deg * (k - 1)) % Full]
\* The cusps of test_get_house_number, given in hundredths of a degree.
TestCusps ==
    [k \in 1..12 |->
        <<22682, 25599, 28682, 31732, 34823, 1923,
          4982, 7999, 10982, 13732, 16623, 19682>>[k] * (Deg \div 100)]
WellFormedCuspLists ==
    {EqualCusps((i * 75 * Deg) % Full) : i \in 0..MaxStart}
        \cup {TestCusps}
        \cup {[k \in 1..12 |-> EqualCusps(15 * Deg)[k] + Full]}
MalformedCuspLists ==
    { [k \in 1..12 |-> 10 * Deg],
      [k \in 1..11 |-> 30 * Deg * (k - 1)],
      [k \in 1..12 |-> 30 * Deg * (12 - k)] }
CuspLists == WellFormedCuspLists \cup MalformedCuspLists
LongitudesNear(cusps) ==
    {(cusps[k] % Full) + d : k \in DOMAIN cusps, d \in (0 - MaxDelta)..MaxDelta}
        \cup {29999 * (Deg \div 1000), 0 - Deg, Full, Full + 45 * Deg}

(***************************************************************************)
(* The skies tried                                                         *)
(*                                                                         *)
(* A base sky puts every body at an unremarkable place; the skies tried    *)
(* are the base skies and each base sky with one body moved to a place     *)
(* where a rule changes its answer, given another motion, or made to fail. *)
(***************************************************************************)
\* Base skies tried.
NumBase == 2
\* Ascendants tried: the first NumCusps + 1 entries of AscStarts, going round.
NumCusps == 1

AyanamsaSample == 24 * Deg + 370370
SpeedUnit == Deg \div 10
AscStarts == <<285, 105, 330, 47>>
AscSidereal(c) == AscStarts[((c - 1) % Len(AscStarts)) + 1] * Deg + 1
StartDeg ==
    [Sun |-> 28, Moon |-> 75, Mercury |-> 50, Venus |-> 80, Mars |-> 130,
     Jupiter |-> 250, Saturn |-> 320, Rahu |-> 160]
StrideDeg ==
    [Sun |-> 95, Moon |-> 200, Mercury |-> 110, Venus |-> 60, Mars |-> 170,
     Jupiter |-> 31, Saturn |-> 13, Rahu |-> 340]
BaseLon(body, b) == (((StartDeg[body] + (b - 1) * StrideDeg[body]) % 360) * Deg + 1) % Full
BaseSpeed(body, b) ==
    IF (StartDeg[body] + b) % 3 = 0 THEN 0 - SpeedUnit ELSE SpeedUnit

\* What the provider answers for a body at sidereal longitude sid, moving at speed,
\* and found at sidereal longitude later a quarter of a day on.
BodyAt(sid, speed, later) ==
    [status |-> "ok",
     tropical |-> (sid + AyanamsaSample) % Full,
     latitude |-> Deg \div 7,
     speed |-> speed,
     later_status |-> "ok",
     later_tropical |-> (later + AyanamsaSample) % Full]

BaseBody(body, b) ==
    BodyAt(BaseLon(body, b), BaseSpeed(body, b),
           (BaseLon(body, b) + BaseSpeed(body, b) \div 4) % Full)

BaseSky(b, c) ==
    [bodies |-> [body \in Bodies |-> BaseBody(body, b)],
     ayanamsa |-> AyanamsaSample,
     ascmc0 |-> (AscSidereal(c) + AyanamsaSample) % Full,
     cusps |-> [k \in 1..12 |-> (AscSidereal(c) + 30 * Deg * (k - 1) + AyanamsaSample) % Full],
     houses_ok |-> TRUE]

\* The places where a rule changes its answer for this body.
Anchors(body, b) ==
    {0, 30 * Deg, 180 * Deg}
        \cup (IF body \in DOMAIN EXALTATION
              THEN {EXALTATION[body], DEBILITATION[body], (EXALTATION[body] + 180 * Deg) % Full}
              ELSE {})
        \cup (IF body # "Sun" THEN {Round6(BaseLon("Sun", b))} ELSE {})
NearOffsets ==
    LET third == Deg \div 1000000
        widths == {0, 1, 2, 2 * Deg, 5 * Deg, 5 * Deg + third, 7 * Deg, 7 * Deg - third,
                   (85 * Deg) \div 10, (85 * Deg) \div 10 - third}
    IN  widths \cup {0 - w : w \in widths}
MovedBodies(body, b) ==
    {BodyAt((a + o) % Full, SpeedUnit, (a + o + SpeedUnit \div 4) % Full) :
        a \in Anchors(body, b), o \in NearOffsets}
\* Every sign of the speed with every sign of the six-hour difference, at the base
\* place and just before 360 degrees.
MotionBodies(body, b) ==
    {BodyAt(at, sp * SpeedUnit, (at + d * (SpeedUnit \div 4)) % Full) :
        at \in {BaseLon(body, b), Full - SpeedUnit \div 8},
        sp \in {-1, 0, 1}, d \in {-1, 0, 1}}
FailedBodies(body, b) ==
    {[BaseBody(body, b) EXCEPT !.status = st] : st \in {"none", "raise"}}
        \cup {[BaseBody(body, b) EXCEPT !.later_status = st] : st \in {"none", "raise"}}
FocusBodies(body, b) ==
    MovedBodies(body, b) \cup MotionBodies(body, b) \cup FailedBodies(body, b)

SkiesOf(b, c) ==
    {BaseSky(b, c), [BaseSky(b, c) EXCEPT !.houses_ok = FALSE]}
        \cup UNION {{[BaseSky(b, c) EXCEPT !.bodies[body] = fb] : fb \in FocusBodies(body, b)} :
                       body \in Bodies}
Skies == UNION {SkiesOf(b, c) : b \in 1..NumBase, c \in 1..(NumCusps + 1)}

(***************************************************************************)
(* Inputs of calculate_planetary_positions taken alone                     *)
(***************************************************************************)
\* Sidereal longitudes a provider may answer outside [0, 360), and the two ends.
OutOfRangeLongitudes ==
    {0 - 1, 0 - 30 * Deg, 0 - 45 * Deg - 1, 0 - Full, 0 - Full - 1,
     Full, Full + 1, Full + 5 * Deg, Full + 30 * Deg,
     0, Full - 1}
ProviderBodies(body, b) ==
    {[sidereal |-> v] @@ BaseBody(body, b) : v \in OutOfRangeLongitudes}
ProviderSkies ==
    UNION {{BaseSky(b, 1)}
               \cup UNION {{[BaseSky(b, 1) EXCEPT !.bodies[body] = pb] :
                               pb \in ProviderBodies(body, b)} : body \in Bodies} :
           b \in 1..NumBase}
\* Lists of 12 cusps: the well-formed ones, 12 equal cusps, 12 descending cusps.
TwelveCusps == {cusps \in CuspLists : Len(cusps) = 12}

(***************************************************************************)
(* Inputs of the aspect engine and of the correlation                      *)
(***************************************************************************)
\* A base body turned the other way, shifted by half a sign and by a whole sign,
\* and failing.
CorrBodies(body, b) ==
    LET sp == BaseSpeed(body, b)
        Shifted(by) == (BaseLon(body, b) + by) % Full
        Later(at, speed) == (at + speed \div 4) % Full
    IN  {BodyAt(Shifted(0), 0 - sp, Later(Shifted(0), 0 - sp)),
         BodyAt(Shifted(15 * Deg), sp, Later(Shifted(15 * Deg), sp)),
         BodyAt(Shifted(30 * Deg), sp, Later(Shifted(30 * Deg), sp)),
         [BaseBody(body, b) EXCEPT !.status = "raise"]}
CorrSkies(b, c) ==
    {BaseSky(b, c)}
        \cup UNION {{[BaseSky(b, c) EXCEPT !.bodies[body] = cb] : cb \in CorrBodies(body, b)} :
                       body \in Bodies}

ChartOf(eph) == calculate_complete_chart(eph).value
BaseChart(b, c) == ChartOf(BaseSky(b, c))
BaseCharts == {BaseChart(b, c) : b \in 1..NumBase, c \in 1..(NumCusps + 1)}

\* A planet's record with its house replaced, and with its house left out.
WithHouse(planet_dict, n, h) == [planet_dict EXCEPT ![n].house = h]
WithoutHouse(planet_dict, n) ==
    [planet_dict EXCEPT ![n] = [k \in (DOMAIN @) \ {"house"} |-> @[k]]]
EditedPositions(planet_dict) ==
    {WithHouse(planet_dict, n, h) : n \in DOMAIN planet_dict, h \in {0, 13}}
        \cup {WithoutHouse(planet_dict, n) : n \in DOMAIN planet_dict}
EditedCharts(ch) ==
    {[ch EXCEPT !.planetary_positions = pd] : pd \in EditedPositions(ch.planetary_positions)}

\* The row that capture_cosmic_snapshot (lines 295-314) writes for a chart.
SnapshotRow(chart_data, active_aspects) ==
    [lagna_degree |-> chart_data.ascendant_degree,
     lagna_rasi |-> chart_data.ascendant_rasi,
     lagna_rasi_number |-> chart_data.ascendant_rasi_number,
     house_cusps |-> chart_data.house_cusps,
     planetary_positions |-> chart_data.planetary_positions,
     active_aspects |-> active_aspects,
     retrograde_planets |-> get_retrograde_planets(chart_data),
     ayanamsa |-> chart_data.ayanamsa]

\* Planet dicts given to calculate_all_aspects: every subset of a base chart's
\* planets, one planet with a house that is missing or out of range, and a body the
\* rules do not know.
AspectInputs ==
    UNION {{[n \in present |-> ch.planetary_positions[n]] : present \in SUBSET PlanetNames}
               \cup EditedPositions(ch.planetary_positions)
               \cup {[n \in PlanetNames \cup {"Uranus"} |->
                         ch.planetary_positions[IF n = "Uranus" THEN "Sun" ELSE n]]} :
           ch \in BaseCharts}

\* Charts given to correlate_event_with_snapshot as the event's and the snapshot's.
EventInputs(b, c) ==
    {ChartOf(eph) : eph \in CorrSkies(b, c)} \cup EditedCharts(BaseChart(b, c))
SnapshotInputs(b, c) ==
    {ChartOf(eph) : eph \in CorrSkies(b, c)}
        \cup EditedCharts(BaseChart(b, c))
        \cup BaseCharts
        \cup {SnapshotRow(ch, calculate_all_aspects(ch.planetary_positions).value) :
                 ch \in BaseCharts}

(***************************************************************************)
(* Specification of aspect_calculator.calculate_all_aspects                *)
(***************************************************************************)
InitAspects ==
    /\ aspect_planets \in AspectInputs
    /\ all_aspects = Pending
    /\ FilterUnused
    /\ TargetUnused /\ HouseUnused /\ ChartUnused /\ CorrUnused /\ RunUnused /\ BackfillUnused
    /\ RetroUnused /\ UpdateUnused

CalculateAllAspects ==
    /\ all_aspects = Pending
    /\ all_aspects' = calculate_all_aspects(aspect_planets)
    /\ UNCHANGED <<aspect_planets, filterVars, targetVars, houseVars, chartVars, corrVars, mainVars, tableVars, backfillVars,
                   retroVars, updateVars>>

NextAspects == CalculateAllAspects
SpecAspects == InitAspects /\ [][NextAspects]_vars

(***************************************************************************)
(* Specification of the four functions that validate their arguments       *)
(***************************************************************************)
\* House numbers and offsets on either side of both ends of the range.
EdgeHouses == {1 - MaxOutOfRange, 0, 1, 12, 13, 12 + MaxOutOfRange}
EdgeOffsets == {0, 1, 11, 12}
\* Cusp lists of 0, 11, 12 and 13 entries.
CuspListsOfAnyLength ==
    {<<>>, [k \in 1..11 |-> 30 * Deg * (k - 1)], EqualCusps(0),
     [k \in 1..13 |-> (30 * Deg * (k - 1)) % Full]}
\* A base chart's planets, and the same with one house out of range or missing, of a
\* planet the rules know or of one they do not.
ValidationPlanets ==
    LET planet_dict == BaseChart(1, 1).planetary_positions
        with_uranus == [n \in PlanetNames \cup {"Uranus"} |->
                           planet_dict[IF n = "Uranus" THEN "Sun" ELSE n]]
    IN  {planet_dict, WithoutHouse(planet_dict, "Mars"), WithHouse(with_uranus, "Uranus", 13)}
            \cup {WithHouse(planet_dict, n, h) : n \in {"Sun", "Ketu"}, h \in EdgeHouses \ {1, 12}}

InitValidation ==
    /\ from_house \in EdgeHouses /\ offset \in EdgeOffsets /\ target_house = Pending
    /\ planet_longitude = 10 * Deg /\ house_cusps \in CuspListsOfAnyLength
    /\ house_number = Pending
    /\ aspect_planets \in ValidationPlanets /\ all_aspects = Pending
    /\ aspects_house_number \in EdgeHouses
    /\ aspects_given = calculate_all_aspects(BaseChart(1, 1).planetary_positions).value
    /\ aspects_to_house = Pending
    /\ ChartUnused /\ CorrUnused /\ RunUnused /\ BackfillUnused
    /\ RetroUnused /\ UpdateUnused

ValidateTargetHouse ==
    /\ target_house = Pending
    /\ target_house' = calculate_target_house(from_house, offset)
    /\ UNCHANGED <<from_house, offset, houseVars, aspectVars, chartVars, corrVars, mainVars,
                   tableVars, backfillVars,
                   retroVars, updateVars>>

ValidateHouseNumber ==
    /\ house_number = Pending
    /\ house_number' = get_house_number(planet_longitude, house_cusps)
    /\ UNCHANGED <<planet_longitude, house_cusps, targetVars, aspectVars, chartVars, corrVars,
                   mainVars, tableVars, backfillVars,
                   retroVars, updateVars>>

ValidateAllAspects ==
    /\ all_aspects = Pending
    /\ all_aspects' = calculate_all_aspects(aspect_planets)
    /\ UNCHANGED <<aspect_planets, filterVars, targetVars, houseVars, chartVars, corrVars,
                   mainVars, tableVars, backfillVars,
                   retroVars, updateVars>>

GetAspectsToHouse ==
    /\ aspects_to_house = Pending
    /\ aspects_to_house' = get_aspects_to_house(aspects_house_number, aspects_given)
    /\ UNCHANGED <<aspects_house_number, aspects_given, aspect_planets, all_aspects,
                   targetVars, houseVars, chartVars, corrVars, mainVars, tableVars,
                   backfillVars,
                   retroVars, updateVars>>

NextValidation ==
    ValidateTargetHouse \/ ValidateHouseNumber \/ ValidateAllAspects \/ GetAspectsToHouse
SpecValidation == InitValidation /\ [][NextValidation]_vars

(***************************************************************************)
(* Specification of correlation_analyzer.correlate_event_with_snapshot     *)
(***************************************************************************)
InitCorrelate ==
    /\ \E b \in 1..NumBase, c \in 1..(NumCusps + 1) :
          /\ event_chart \in EventInputs(b, c)
          /\ snapshot_chart \in SnapshotInputs(b, c)
    /\ snapshot_id = 1
    /\ correlation = Pending
    /\ TargetUnused /\ HouseUnused /\ ChartUnused /\ AspectUnused /\ RunUnused /\ BackfillUnused
    /\ RetroUnused /\ UpdateUnused

CorrelateEventWithSnapshot ==
    /\ correlation = Pending
    /\ correlation' = correlate_event_with_snapshot(event_chart, snapshot_chart, snapshot_id)
    /\ UNCHANGED <<event_chart, snapshot_chart, snapshot_id,
                   targetVars, houseVars, chartVars, aspectVars, mainVars, tableVars, backfillVars,
                   retroVars, updateVars>>

NextCorrelate == CorrelateEventWithSnapshot
SpecCorrelate == InitCorrelate /\ [][NextCorrelate]_vars

(***************************************************************************)
(* Specification of the chart assembly and of the daily planetary data     *)
(***************************************************************************)
InitChart ==
    /\ sky \in Skies
    /\ planets_data = Unused
    /\ chart = Pending
    /\ daily = Pending
    /\ TargetUnused /\ HouseUnused /\ AspectUnused /\ CorrUnused /\ RunUnused /\ BackfillUnused
    /\ RetroUnused /\ UpdateUnused

CalculateCompleteChart ==
    /\ chart = Pending
    /\ chart' = calculate_complete_chart(sky)
    /\ UNCHANGED <<sky, planets_data, daily, targetVars, houseVars, aspectVars, corrVars, mainVars, tableVars, backfillVars,
                   retroVars, updateVars>>

CalculateDailyPlanetaryData ==
    /\ daily = Pending
    /\ daily' = calculate_daily_planetary_data(sky)
    /\ UNCHANGED <<sky, planets_data, chart, targetVars, houseVars, aspectVars, corrVars, mainVars, tableVars, backfillVars,
                   retroVars, updateVars>>

NextChart == CalculateCompleteChart \/ CalculateDailyPlanetaryData
SpecChart == InitChart /\ [][NextChart]_vars

(***************************************************************************)
(* Specification of calculate_planetary_positions                          *)
(***************************************************************************)
InitPositions ==
    /\ sky \in ProviderSkies
    /\ house_cusps \in TwelveCusps
    /\ planets_data = Pending
    /\ chart = Unused /\ daily = Unused
    /\ planet_longitude = Unused /\ house_number = Unused
    /\ TargetUnused /\ AspectUnused /\ CorrUnused /\ RunUnused /\ BackfillUnused
    /\ RetroUnused /\ UpdateUnused

CalculatePlanetaryPositions ==
    /\ planets_data = Pending
    /\ planets_data' = Returned(calculate_planetary_positions(sky, house_cusps))
    /\ UNCHANGED <<sky, chart, daily, planet_longitude, house_cusps, house_number,
                   targetVars, aspectVars, corrVars, mainVars, tableVars, backfillVars,
                   retroVars, updateVars>>

NextPositions == CalculatePlanetaryPositions
SpecPositions == InitPositions /\ [][NextPositions]_vars

(***************************************************************************)
(* Specification of calculate_target_house                                 *)
(***************************************************************************)

InitTarget ==
    /\ from_house \in HouseArgs
    /\ offset \in OffsetArgs
    /\ target_house = Pending
    /\ HouseUnused /\ ChartUnused /\ AspectUnused /\ CorrUnused /\ RunUnused /\ BackfillUnused
    /\ RetroUnused /\ UpdateUnused

CalculateTargetHouse ==
    /\ target_house = Pending
    /\ target_house' = calculate_target_house(from_house, offset)
    /\ UNCHANGED <<from_house, offset, houseVars, chartVars, aspectVars, corrVars, mainVars, tableVars, backfillVars,
                   retroVars, updateVars>>

NextTarget == CalculateTargetHouse
SpecTarget == InitTarget /\ [][NextTarget]_vars

(***************************************************************************)
(* Specification of get_house_number                                       *)
(***************************************************************************)
InitHouse ==
    /\ house_cusps \in CuspLists
    /\ planet_longitude \in LongitudesNear(house_cusps)
    /\ house_number = Pending
    /\ TargetUnused /\ ChartUnused /\ AspectUnused /\ CorrUnused /\ RunUnused /\ BackfillUnused
    /\ RetroUnused /\ UpdateUnused

GetHouseNumber ==
    /\ house_number = Pending
    /\ house_number' = get_house_number(planet_longitude, house_cusps)
    /\ UNCHANGED <<planet_longitude, house_cusps, targetVars, chartVars, aspectVars, corrVars, mainVars, tableVars, backfillVars,
                   retroVars, updateVars>>

NextHouse == GetHouseNumber
SpecHouse == InitHouse /\ [][NextHouse]_vars

(***************************************************************************)
(* C4                                                                      *)
(***************************************************************************)
\* C4: calculate_target_house(10, 5) returns 3, and the other results of the
\* docstring hold too: (1, 6) gives 7 and (12, 7) gives 7.
C4_DocstringResults ==
    target_house # Pending =>
        /\ (from_house = 10 /\ offset = 5) => target_house = Returned(3)
        /\ (from_house = 1 /\ offset = 6) => target_house = Returned(7)
        /\ (from_house = 12 /\ offset = 7) => target_house = Returned(7)

(***************************************************************************)
(* C6                                                                      *)
(***************************************************************************)
\* Twelve cusps, distinct and in increasing circular order: every cusp differs
\* from the next, and going round from cusp 1 back to cusp 1 passes 0 once.
Gap(cusps, k) == (cusps[(k % 12) + 1] - cusps[k]) % Full
WellFormedCusps(cusps) ==
    /\ Len(cusps) = 12
    /\ \A k \in 1..12 : Gap(cusps, k) > 0
    /\ Cardinality({k \in 1..12 : cusps[(k % 12) + 1] % Full < cusps[k] % Full}) = 1
\* The longitude lies in the half-open circular interval [cusp k, cusp k+1).
InHouseInterval(lon, cusps, k) == (lon - cusps[k]) % Full < Gap(cusps, k)

DailyEntries(name) == {i \in DOMAIN daily.value : daily.value[i].name = name}
DailyPlanet(name) == daily.value[CHOOSE i \in DailyEntries(name) : TRUE]

\* C7: in every assembled chart and every daily data set that holds both Rahu and
\* Ketu, Ketu's longitude is (Rahu's longitude + 180) mod 360.
C7_KetuIsRahuPlus180 ==
    /\ (chart # Unused /\ chart.status = "ok"
        /\ {"Rahu", "Ketu"} \subseteq DOMAIN chart.value.planetary_positions) =>
            chart.value.planetary_positions["Ketu"].longitude
                = (chart.value.planetary_positions["Rahu"].longitude + 180 * Deg) % Full
    /\ (daily # Unused /\ daily.status = "ok"
        /\ DailyEntries("Rahu") # {} /\ DailyEntries("Ketu") # {}) =>
            DailyPlanet("Ketu").longitude
                = (DailyPlanet("Rahu").longitude + 180 * Deg) % Full

(***************************************************************************)
(* C8                                                                      *)
(***************************************************************************)
Strengths == chart.value.planetary_strengths
Positions == chart.value.planetary_positions
ChartMade == chart # Unused /\ chart.status = "ok"

\* C8 as claimed: every planet that is exalted, in its own sign and has dig bala
\* scores exactly 1.0.
C8_ExaltedOwnDigBalaScoresOne ==
    ChartMade =>
        \A n \in DOMAIN Strengths :
            (Strengths[n].exalted /\ Strengths[n].own_sign /\ Strengths[n].dig_bala)
                => Strengths[n].strength_score = 100

\* C8 as amended: every planet that is exalted, in its own sign and has dig bala
\* scores exactly 1.0 when it is not combusted, and exactly 0.95 when it is.
C8_ExaltedOwnDigBalaScoresOneUnlessCombusted ==
    ChartMade =>
        \A n \in DOMAIN Strengths :
            (Strengths[n].exalted /\ Strengths[n].own_sign /\ Strengths[n].dig_bala)
                => Strengths[n].strength_score = IF Strengths[n].combusted THEN 95 ELSE 100

\* Some planet is exalted, in its own sign, has dig bala, is not combusted, scores 1.0.
C8_Witness ==
    /\ ChartMade
    /\ \E n \in DOMAIN Strengths :
          /\ Strengths[n].exalted /\ Strengths[n].own_sign /\ Strengths[n].dig_bala
          /\ ~Strengths[n].combusted
          /\ Strengths[n].strength_score = 100

(***************************************************************************)
(* C9                                                                      *)
(***************************************************************************)
\* C9: for every planet with dignity data, debilitated is true exactly when the
\* planet's longitude is within 5 degrees, round the circle, of the point 180
\* degrees opposite its exaltation point.
C9_DebilitatedIsOppositeExaltation ==
    ChartMade =>
        \A n \in DOMAIN Strengths \cap DOMAIN EXALTATION :
            Strengths[n].debilitated
                <=> (LET opposite == (EXALTATION[n] + 180 * Deg) % Full
                         d == (Positions[n].longitude - opposite) % Full
                     IN  d <= 5 * Deg \/ Full - d <= 5 * Deg)

(***************************************************************************)
(* C10                                                                     *)
(***************************************************************************)
\* The sign of the six-hour difference of the sidereal longitude, the difference
\* taken in (-180, 180].
FiniteDifferenceRetrograde(body) ==
    LET d == (sky.bodies[body].later_tropical - sky.bodies[body].tropical) % Full
    IN  (IF d > 180 * Deg THEN d - Full ELSE d) < 0

\* C10: for Mercury, Venus, Mars, Jupiter and Saturn the flag of the assembled
\* chart is the sign of the six-hour finite difference, so the chart and the daily
\* data give the same flag for the same ephemeris data.
C10_ChartFlagIsFiniteDifference ==
    \A n \in {"Mercury", "Venus", "Mars", "Jupiter", "Saturn"} :
        (ChartMade /\ n \in DOMAIN Positions /\ sky.bodies[n].later_status = "ok") =>
            /\ Positions[n].is_retrograde = FiniteDifferenceRetrograde(n)
            /\ (daily # Pending /\ daily.status = "ok" /\ DailyEntries(n) # {})
                  => Positions[n].is_retrograde = DailyPlanet(n).is_retrograde

(***************************************************************************)
(* collect_events_with_cosmic_state                                        *)
(*                                                                         *)
(* A table is the sequence of its rows and the id of a new row is its      *)
(* place in it.  An insert answers with the new row, with no data, or by   *)
(* raising; only the first adds the row.  A function that talks to the     *)
(* database is the set of the results it can have.  An id of None is 0 and *)
(* a chart of None is the empty tuple.                                     *)
(***************************************************************************)
InsertOutcomes == {"ok", "no_data", "raise"}
None == <<>>

\* Lines 295-337: the row is inserted and the id and the chart are handed back.
SnapshotResults(chart_data, active_aspects, snapshots) ==
    {IF insert = "ok"
     THEN [outcome |-> Returned([snapshot_id |-> Len(snapshots) + 1,
                                 chart_data |-> chart_data]),
           cosmic_snapshots |->
               Append(snapshots, [id |-> Len(snapshots) + 1,
                                  data |-> SnapshotRow(chart_data, active_aspects)])]
     ELSE [outcome |-> Raised("Exception"), cosmic_snapshots |-> snapshots] :
     insert \in InsertOutcomes}

\* Lines 248-252: the aspects of the chart.
SnapshotOfChart(chart_data, active_aspects, snapshots) ==
    IF active_aspects.status # "ok"
    THEN {[outcome |-> Raised("ValueError"), cosmic_snapshots |-> snapshots]}
    ELSE SnapshotResults(chart_data, active_aspects.value, snapshots)

SnapshotOf(chart_data, snapshots) ==
    IF chart_data.status # "ok"
    THEN {[outcome |-> chart_data, cosmic_snapshots |-> snapshots]}
    ELSE SnapshotOfChart(chart_data.value,
                         calculate_all_aspects(chart_data.value.planetary_positions),
                         snapshots)

\* Lines 206-341.  Results: the snapshot id and chart handed back, or the raise, and
\* the table as it is left.
capture_cosmic_snapshot(eph, snapshots) ==
    SnapshotOf(calculate_complete_chart(eph), snapshots)

\* Lines 1008-1022: the columns of a chart row.
ChartRow(id, ev_id, chart_data) ==
    [id |-> id,
     event_id |-> ev_id,
     ascendant_degree |-> chart_data.ascendant_degree,
     ascendant_rasi |-> chart_data.ascendant_rasi,
     ascendant_rasi_number |-> chart_data.ascendant_rasi_number,
     house_cusps |-> chart_data.house_cusps,
     ayanamsa |-> chart_data.ayanamsa,
     planetary_positions |-> chart_data.planetary_positions,
     planetary_strengths |-> chart_data.planetary_strengths]

\* Lines 1008-1035: the chart is inserted and handed back; a raise gives None.
ChartResults(chart_data, ev_id, events_table, charts) ==
    IF chart_data.status # "ok"
    THEN {[event_id |-> ev_id, chart_data |-> None,
           events |-> events_table, event_chart_data |-> charts]}
    ELSE {[event_id |-> ev_id,
           chart_data |-> IF insert = "raise" THEN None ELSE chart_data.value,
           events |-> events_table,
           event_chart_data |->
               IF insert = "ok"
               THEN Append(charts, ChartRow(Len(charts) + 1, ev_id, chart_data.value))
               ELSE charts] : insert \in InsertOutcomes}

\* Lines 917-951: the coordinates of the event and the row as it is left.  An event
\* comes with coordinates, with only a location name, or with neither; the geocoder
\* finds a named location or does not, and the update of the row succeeds or raises.
Geocoded(event, inserted) ==
    IF event.place = "coordinates" THEN {[located |-> TRUE, events |-> inserted]}
    ELSE IF event.place = "location"
    THEN {[located |-> FALSE, events |-> inserted],
          [located |-> TRUE, events |-> inserted],
          [located |-> TRUE,
           events |-> [inserted EXCEPT ![Len(inserted)].has_coordinates = TRUE]]}
    ELSE {[located |-> FALSE, events |-> inserted]}

\* Lines 953-1037: the chart, if the time and the coordinates are known.
StoredResults(event, chart_data, located_rows, charts) ==
    UNION {IF event.time /\ g.located
           THEN ChartResults(chart_data, Len(g.events), g.events, charts)
           ELSE {[event_id |-> Len(g.events), chart_data |-> None,
                  events |-> g.events, event_chart_data |-> charts]} :
           g \in located_rows}

\* Lines 844-1041.  The insert that answers with no data or raises gives (None, None).
store_event_with_chart(event, events_table, charts) ==
    {[event_id |-> 0, chart_data |-> None,
      events |-> events_table, event_chart_data |-> charts]}
        \cup StoredResults(
                 event,
                 calculate_complete_chart(event.sky),
                 Geocoded(event,
                          Append(events_table,
                                 [id |-> Len(events_table) + 1,
                                  title |-> event.title,
                                  has_accurate_time |-> event.time,
                                  has_coordinates |-> event.place = "coordinates"])),
                 charts)

\* Lines 1071-1082: the row is inserted; a raise gives False.
CorrelationResults(correlation_data, ev_id, snap_id, stored) ==
    {[success |-> insert # "raise",
      correlation_data |-> correlation_data,
      event_cosmic_correlations |->
          IF insert = "ok"
          THEN Append(stored,
                      [id |-> Len(stored) + 1,
                       event_id |-> ev_id,
                       snapshot_id |-> snap_id,
                       correlation_score |-> correlation_data.correlation_score,
                       matching_factors |-> correlation_data.correlations,
                       total_matches |-> correlation_data.total_matches])
          ELSE stored] : insert \in InsertOutcomes}

\* The correlation made and stored against another snapshot than the one handed in.
CorrelateAgainstAnotherSnapshot(ev_id, ev_chart, snap_id, snap_chart, stored) ==
    CorrelationResults(correlate_event_with_snapshot(ev_chart, ev_chart, snap_id + 1),
                       ev_id, snap_id + 1, stored)

\* Lines 1044-1180.  The rows of event_planetary_correlations are made from details
\* named matching_planets and matching_aspects, which no factor has: none is stored.
correlate_and_store(ev_id, ev_chart, snap_id, snap_chart, stored) ==
    CorrelationResults(correlate_event_with_snapshot(ev_chart, snap_chart, snap_id),
                       ev_id, snap_id, stored)

(***************************************************************************)
(* Specification of a collection run (main, lines 1185-1441)               *)
(*                                                                         *)
(* The run captures the snapshot, detects and filters the events, and for  *)
(* each event stores it and, when it has a chart, correlates it.  The      *)
(* events that detection and the filters leave are an input.               *)
(***************************************************************************)
\* The longest list of events a run is given.
MaxEvents == 2

\* What the provider answers at the moments of the run and of the events.
RunSkyList ==
    <<BaseSky(1, 1), BaseSky(1, 2), BaseSky(2, 1),
      [BaseSky(1, 1) EXCEPT !.bodies["Mars"].status = "raise"],
      [BaseSky(2, 2) EXCEPT !.houses_ok = FALSE]>>
RunSkies == {RunSkyList[k] : k \in DOMAIN RunSkyList}

EventKinds ==
    {[time |-> TRUE, place |-> "coordinates"], [time |-> TRUE, place |-> "location"],
     [time |-> TRUE, place |-> "none"], [time |-> FALSE, place |-> "coordinates"]}
\* The k-th event of a list: its moment is the k-th of the list's moments, which
\* go through RunSkyList from where the list starts.
EventAt(start, k, kind) ==
    [title |-> k,
     sky |-> RunSkyList[((start + k - 2) % Len(RunSkyList)) + 1],
     time |-> kind.time,
     place |-> kind.place]
EventLists ==
    UNION {{[k \in 1..len |-> EventAt(start, k, kinds[k])] :
               kinds \in [1..len -> EventKinds], start \in DOMAIN RunSkyList} :
           len \in 0..MaxEvents}

Init ==
    /\ sky \in RunSkies
    /\ planets_data = Unused /\ chart = Unused /\ daily = Unused
    /\ pc = "capture"
    /\ snapshot_id = 0 /\ snapshot_chart = None
    /\ events_detected = <<>> /\ event_index = 0
    /\ event_id = 0 /\ event_chart = None /\ correlation = Pending
    /\ events_stored = 0 /\ correlations_created = 0 /\ correlation_scores = <<>>
    /\ cosmic_snapshots = <<>> /\ events = <<>>
    /\ event_chart_data = <<>> /\ event_cosmic_correlations = <<>>
    /\ TargetUnused /\ HouseUnused /\ AspectUnused /\ BackfillUnused
    /\ RetroUnused /\ UpdateUnused

\* Lines 1227 and 1438-1441: step 1; a raise ends the run with exit code 1.
CaptureCosmicSnapshot ==
    /\ pc = "capture"
    /\ \E r \in capture_cosmic_snapshot(sky, cosmic_snapshots) :
          /\ cosmic_snapshots' = r.cosmic_snapshots
          /\ IF r.outcome.status = "ok"
             THEN /\ snapshot_id' = r.outcome.value.snapshot_id
                  /\ snapshot_chart' = r.outcome.value.chart_data
                  /\ pc' = "detect"
             ELSE /\ UNCHANGED <<snapshot_id, snapshot_chart>>
                  /\ pc' = "exit_1"
    /\ UNCHANGED <<event_chart, correlation, events_detected, event_index, event_id,
                   events_stored, correlations_created, correlation_scores,
                   events, event_chart_data, event_cosmic_correlations,
                   chartVars, targetVars, houseVars, aspectVars, backfillVars,
                   retroVars, updateVars>>

\* Lines 1232-1346: steps 2 and 3; detection raises, or leaves no event and the run
\* returns, or leaves the events to process.
DetectEvents ==
    /\ pc = "detect"
    /\ \/ /\ pc' = "exit_1"
          /\ UNCHANGED <<events_detected, event_index>>
       \/ \E detected \in EventLists :
             /\ events_detected' = detected
             /\ IF detected = <<>>
                THEN pc' = "done" /\ UNCHANGED event_index
                ELSE pc' = "store" /\ event_index' = 1
    /\ UNCHANGED <<corrVars, event_id, events_stored, correlations_created, correlation_scores,
                   tableVars, chartVars, targetVars, houseVars, aspectVars, backfillVars,
                   retroVars, updateVars>>

\* Lines 1348 and 1385-1400: the next event, or the summary after the last one.
NextEvent ==
    IF event_index < Len(events_detected)
    THEN pc' = "store" /\ event_index' = event_index + 1
    ELSE pc' = "done" /\ UNCHANGED event_index

\* Lines 1352-1360: one event is stored and counted.  The result is a pair, never
\* None, so the test of line 1353 lets every event through.
StoreEventWithChart ==
    /\ pc = "store"
    /\ \E result \in store_event_with_chart(events_detected[event_index], events,
                                            event_chart_data) :
          /\ events' = result.events
          /\ event_chart_data' = result.event_chart_data
          /\ event_id' = result.event_id
          /\ event_chart' = result.chart_data
          /\ events_stored' = events_stored + 1
          /\ IF result.chart_data # None
             THEN pc' = "correlate" /\ UNCHANGED event_index
             ELSE NextEvent
    /\ correlation' = Pending
    /\ UNCHANGED <<snapshot_id, snapshot_chart, events_detected, correlations_created,
                   correlation_scores, cosmic_snapshots, event_cosmic_correlations,
                   chartVars, targetVars, houseVars, aspectVars, backfillVars,
                   retroVars, updateVars>>

\* Lines 1362-1383: the event's chart is correlated with the snapshot's and the
\* correlation is stored and counted.
CorrelateAndStore ==
    /\ pc = "correlate"
    /\ \E r \in correlate_and_store(event_id, event_chart, snapshot_id, snapshot_chart,
                                    event_cosmic_correlations) :
          /\ event_cosmic_correlations' = r.event_cosmic_correlations
          /\ correlation' = r.correlation_data
          /\ IF r.success
             THEN /\ correlations_created' = correlations_created + 1
                  /\ correlation_scores' =
                         Append(correlation_scores,
                                correlate_event_with_snapshot(event_chart, snapshot_chart,
                                                              snapshot_id).correlation_score)
             ELSE UNCHANGED <<correlations_created, correlation_scores>>
    /\ NextEvent
    /\ UNCHANGED <<event_chart, snapshot_id, snapshot_chart, events_detected, event_id,
                   events_stored, cosmic_snapshots, events, event_chart_data,
                   chartVars, targetVars, houseVars, aspectVars, backfillVars,
                   retroVars, updateVars>>

Next == CaptureCosmicSnapshot \/ DetectEvents \/ StoreEventWithChart \/ CorrelateAndStore
Spec == Init /\ [][Next]_vars

(***************************************************************************)
(* scripts/backfill_event_charts beside store_event_with_chart             *)
(*                                                                         *)
(* The backfill reads and writes the tables between the database calls of  *)
(* the collection, so here store_event_with_chart goes call by call.  A    *)
(* row of events keeps its moment: what the provider answers for the       *)
(* date, time, coordinates and timezone the row holds.  The timezone is    *)
(* normalised at the insert, without coordinates for an event that only    *)
(* names its location, and again for the chart, with coordinates (lines    *)
(* 874-879 and 981-997); the row is updated to the second when the event   *)
(* came with a timezone of its own that the first did not yield.  The      *)
(* schema is not in the sources: event_chart_data either allows one row    *)
(* only for an event_id, or the upsert's ON CONFLICT clause is rejected.   *)
(***************************************************************************)
\* The longest list of events stored while a backfill runs.
MaxBackfillEvents == 2

\* zone: the second normalisation gives the timezone of the first ("kept"), or
\* another one that the row is updated to ("updated") or is not ("left").
BackfillEventKinds ==
    {[time |-> TRUE, place |-> "coordinates", zone |-> "kept"],
     [time |-> TRUE, place |-> "location", zone |-> "kept"],
     [time |-> TRUE, place |-> "location", zone |-> "updated"],
     [time |-> TRUE, place |-> "location", zone |-> "left"],
     [time |-> FALSE, place |-> "coordinates", zone |-> "kept"]}
BackfillEventAt(start, k, kind) ==
    [title |-> k,
     sky |-> RunSkyList[((start + k - 2) % Len(RunSkyList)) + 1],
     sky_as_stored |-> RunSkyList[((start + k - (IF kind.zone = "kept" THEN 2 ELSE 1))
                                      % Len(RunSkyList)) + 1],
     time |-> kind.time,
     place |-> kind.place,
     zone |-> kind.zone]
BackfillEventLists ==
    UNION {{[k \in 1..len |-> BackfillEventAt(start, k, kinds[k])] :
               kinds \in [1..len -> BackfillEventKinds], start \in DOMAIN RunSkyList} :
           len \in 1..MaxBackfillEvents}

\* The rows of event_chart_data of one event.
ChartsOf(charts, ev_id) == {i \in DOMAIN charts : charts[i].event_id = ev_id}

\* backfill, lines 42-67: the events with coordinates and a date that have no chart.
get_events_needing_charts(events_table, charts) ==
    SelectSeq(events_table,
              LAMBDA event : event.has_coordinates /\ ChartsOf(charts, event.id) = {})

\* backfill, lines 72-105: what /api/chart/calculate answers for a row.  The row of
\* an event without a time holds event_time = None, which the API refuses.
ChartOfRow(event) ==
    IF ~event.has_accurate_time THEN Raised("400")
    ELSE calculate_complete_chart(event.moment)

\* backfill, lines 124-127: upsert with on_conflict = 'event_id'.
Upsert(charts, ev_id, chart_data) ==
    IF ChartsOf(charts, ev_id) # {}
    THEN LET i == CHOOSE k \in ChartsOf(charts, ev_id) : TRUE
         IN  [charts EXCEPT ![i] = ChartRow(charts[i].id, ev_id, chart_data)]
    ELSE Append(charts, ChartRow(Len(charts) + 1, ev_id, chart_data))

\* backfill, lines 69-144: the table as calculate_and_store_chart may leave it.
calculate_and_store_chart(event, charts, unique) ==
    LET api == ChartOfRow(event)
    IN  IF api.status # "ok" THEN {charts}
        ELSE {IF upsert = "ok" THEN Upsert(charts, event.id, api.value) ELSE charts :
                 upsert \in IF unique THEN InsertOutcomes ELSE {"raise"}}

InitBackfill ==
    /\ pc = "insert_event"
    /\ events_detected \in BackfillEventLists /\ event_index = 1
    /\ event_id = 0 /\ event_chart = None /\ correlation = Pending
    /\ \E r \in capture_cosmic_snapshot(RunSkyList[1], <<>>) :
          /\ r.outcome.status = "ok"
          /\ cosmic_snapshots = r.cosmic_snapshots
          /\ snapshot_id = r.outcome.value.snapshot_id
          /\ snapshot_chart = r.outcome.value.chart_data
    /\ events = <<>> /\ event_chart_data = <<>> /\ event_cosmic_correlations = <<>>
    /\ events_stored = Unused /\ correlations_created = Unused /\ correlation_scores = Unused
    /\ event_id_unique \in BOOLEAN
    /\ backfill_pc = "find" /\ events_needing_charts = <<>> /\ backfill_index = 0
    /\ TargetUnused /\ HouseUnused /\ ChartUnused /\ AspectUnused
    /\ RetroUnused /\ UpdateUnused

\* collection, lines 1348-1383: the loop goes on to the next event, or ends.
EventDone ==
    IF event_index < Len(events_detected)
    THEN pc' = "insert_event" /\ event_index' = event_index + 1
    ELSE pc' = "done" /\ UNCHANGED event_index

collectionLocals == <<snapshot_id, snapshot_chart, events_detected, events_stored,
                      correlations_created, correlation_scores, cosmic_snapshots>>
otherVars == <<backfillVars, chartVars, targetVars, houseVars, aspectVars,
               retroVars, updateVars>>

\* collection, lines 877-915: the row of the event is inserted.
InsertEvent ==
    /\ pc = "insert_event"
    /\ LET event == events_detected[event_index]
       IN  \E insert \in InsertOutcomes :
              IF insert = "ok"
              THEN /\ events' = Append(events,
                                       [id |-> Len(events) + 1,
                                        title |-> event.title,
                                        has_accurate_time |-> event.time,
                                        has_coordinates |-> event.place = "coordinates",
                                        moment |-> event.sky_as_stored])
                   /\ event_id' = Len(events) + 1
                   /\ pc' = "coordinates" /\ UNCHANGED event_index
              ELSE /\ event_id' = 0
                   /\ EventDone
                   /\ UNCHANGED events
    /\ event_chart' = None /\ correlation' = Pending
    /\ UNCHANGED <<event_chart_data, event_cosmic_correlations, collectionLocals, otherVars>>

\* collection, lines 917-960: the coordinates are looked up and written to the row;
\* without coordinates or without a time there is no chart.
UpdateCoordinates ==
    /\ pc = "coordinates"
    /\ LET event == events_detected[event_index]
       IN  \E g \in Geocoded(event, events) :
              /\ events' = g.events
              /\ IF event.time /\ g.located
                 THEN pc' = "timezone" /\ UNCHANGED event_index
                 ELSE EventDone
    /\ UNCHANGED <<event_id, event_chart, correlation, event_chart_data,
                   event_cosmic_correlations, collectionLocals, otherVars>>

\* collection, lines 981-997: the timezone is normalised again and the row updated.
UpdateTimezone ==
    /\ pc = "timezone"
    /\ LET event == events_detected[event_index]
       IN  \E update \in {"ok", "raise"} :
              events' = IF event.zone = "updated" /\ update = "ok"
                        THEN [events EXCEPT ![event_id].moment = event.sky]
                        ELSE events
    /\ pc' = "insert_chart"
    /\ UNCHANGED <<event_index, event_id, event_chart, correlation, event_chart_data,
                   event_cosmic_correlations, collectionLocals, otherVars>>

\* collection, lines 999-1035: the chart is calculated and inserted; the insert
\* raises when the event has a row already and the table allows only one.
InsertChart ==
    /\ pc = "insert_chart"
    /\ LET event == events_detected[event_index]
           results == ChartResults(calculate_complete_chart(event.sky), event_id, events,
                                   event_chart_data)
       IN  \E result \in IF event_id_unique /\ ChartsOf(event_chart_data, event_id) # {}
                         THEN {r \in results : r.chart_data = None}
                         ELSE results :
              /\ event_chart_data' = result.event_chart_data
              /\ event_chart' = result.chart_data
              /\ IF result.chart_data # None
                 THEN pc' = "correlate" /\ UNCHANGED event_index
                 ELSE EventDone
    /\ UNCHANGED <<events, event_id, correlation, event_cosmic_correlations,
                   collectionLocals, otherVars>>

\* collection, lines 1362-1383 and 1044-1087: the correlation is inserted.
StoreCorrelation ==
    /\ pc = "correlate"
    /\ \E r \in correlate_and_store(event_id, event_chart, snapshot_id, snapshot_chart,
                                    event_cosmic_correlations) :
          /\ event_cosmic_correlations' = r.event_cosmic_correlations
          /\ correlation' = r.correlation_data
    /\ EventDone
    /\ UNCHANGED <<events, event_id, event_chart, event_chart_data, collectionLocals,
                   otherVars>>

backfillOthers == <<mainVars, corrVars, cosmic_snapshots, events, event_cosmic_correlations,
                    event_id_unique, chartVars, targetVars, houseVars, aspectVars,
                    retroVars, updateVars>>

\* backfill, lines 159-163: the events to process are read; a raise gives none.
GetEventsNeedingCharts ==
    /\ backfill_pc = "find"
    /\ \E found \in {<<>>, get_events_needing_charts(events, event_chart_data)} :
          /\ events_needing_charts' = found
          /\ IF found = <<>>
             THEN backfill_pc' = "done" /\ UNCHANGED backfill_index
             ELSE backfill_pc' = "store" /\ backfill_index' = 1
    /\ UNCHANGED <<event_chart_data, backfillOthers>>

\* backfill, lines 173-179: the chart of the next event read is stored.
CalculateAndStoreChart ==
    /\ backfill_pc = "store"
    /\ \E charts \in calculate_and_store_chart(events_needing_charts[backfill_index],
                                               event_chart_data, event_id_unique) :
          event_chart_data' = charts
    /\ IF backfill_index < Len(events_needing_charts)
       THEN backfill_index' = backfill_index + 1 /\ UNCHANGED backfill_pc
       ELSE backfill_pc' = "done" /\ UNCHANGED backfill_index
    /\ UNCHANGED <<events_needing_charts, backfillOthers>>

NextBackfill ==
    \/ InsertEvent \/ UpdateCoordinates \/ UpdateTimezone \/ InsertChart \/ StoreCorrelation
    \/ GetEventsNeedingCharts \/ CalculateAndStoreChart
SpecBackfill == InitBackfill /\ [][NextBackfill]_vars

(***************************************************************************)
(* Correlation score and factors                                           *)
(***************************************************************************)
Correlated == correlation # Pending /\ correlation # Unused

\* The factors of one type in a correlation result.
FactorsOfType(result, type) ==
    {k \in DOMAIN result.correlations : result.correlations[k].type = type}

\* C1: for every pair of charts the correlation score lies between 0.0 and 1.0 and
\* is the smaller of 1.0 and the sum of the scores of the factors returned.
C1_ScoreIsCappedSumOfFactors ==
    Correlated =>
        /\ 0 <= correlation.correlation_score
        /\ correlation.correlation_score <= 100
        /\ \A k \in DOMAIN correlation.correlations :
               correlation.correlations[k].score \in {5, 10, 15, 30}
        /\ correlation.correlation_score = Min(100, SumScores(correlation.correlations))

\* A pair of charts whose factors add up to more than 1.0, with the score held at 1.0.
C1_Witness ==
    /\ Correlated
    /\ SumScores(correlation.correlations) > 100
    /\ correlation.correlation_score = 100

\* A complete chart: all 9 planets, each with a house in 1..12.
CompleteChart(ch) ==
    /\ "planetary_positions" \in DOMAIN ch
    /\ DOMAIN ch.planetary_positions = PlanetNames
    /\ \A n \in PlanetNames :
           /\ "house" \in DOMAIN ch.planetary_positions[n]
           /\ ch.planetary_positions[n].house \in 1..12

\* C2: the same complete chart given as the event's and as the snapshot's yields a
\* lagna match of 0.30, a house match for each of the 9 planets, an aspect match for
\* every aspect of the chart, a retrograde match for every retrograde planet, a total
\* of 1.0 and the label "Very High".
C2_SameChartMatchesEverywhere ==
    (Correlated /\ event_chart = snapshot_chart /\ CompleteChart(event_chart)) =>
        /\ \E k \in FactorsOfType(correlation, "lagna_match") :
               correlation.correlations[k].score = 30
        /\ \A n \in PlanetNames :
               \E k \in FactorsOfType(correlation, "planetary_house_match") :
                   /\ correlation.correlations[k].details.planet = n
                   /\ correlation.correlations[k].score = 5
        /\ LET aspects == calculate_all_aspects(event_chart.planetary_positions).value
           IN  \A j \in DOMAIN aspects :
                   \E k \in FactorsOfType(correlation, "aspect_match") :
                       /\ correlation.correlations[k].details.planet = aspects[j].planet
                       /\ correlation.correlations[k].details.target_house = aspects[j].to_house
                       /\ correlation.correlations[k].details.aspect_type = aspects[j].aspect_type
        /\ \A n \in PlanetNames :
               event_chart.planetary_positions[n].is_retrograde =>
                   \E k \in FactorsOfType(correlation, "retrograde_match") :
                       correlation.correlations[k].details.planet = n
        /\ correlation.correlation_score = 100
        /\ correlation.strength = "Very High"

\* C3: the correlation of a run's event chart with the snapshot chart that
\* capture_cosmic_snapshot handed to the run has exactly one lagna_match factor, of
\* score 0.30, if the two charts have the same ascendant rasi, and none otherwise.
C3_LagnaMatchIffSameAscendantRasi ==
    correlation # Pending =>
        LET lagna == FactorsOfType(correlation, "lagna_match")
        IN  IF event_chart.ascendant_rasi = snapshot_chart.ascendant_rasi
            THEN /\ Cardinality(lagna) = 1
                 /\ \A k \in lagna : correlation.correlations[k].score = 30
            ELSE lagna = {}

(***************************************************************************)
(* Aspect cardinality                                                      *)
(***************************************************************************)
AspectsAsked == all_aspects # Pending /\ all_aspects # Unused

\* The known planets present with a house in 1..12.
WithHouseInRange(planet_dict) ==
    {n \in DOMAIN planet_dict \cap PlanetNames :
        "house" \in DOMAIN planet_dict[n] /\ planet_dict[n].house \in 1..12}
\* The known planets present with a house outside 1..12.
WithHouseOutOfRange(planet_dict) ==
    {n \in DOMAIN planet_dict \cap PlanetNames :
        "house" \in DOMAIN planet_dict[n] /\ planet_dict[n].house \notin 1..12}

RecordsOf(n) == {j \in DOMAIN all_aspects.value : all_aspects.value[j].planet = n}

AspectCardinality ==
    /\ all_aspects.status = "ok"
    /\ \A n \in WithHouseInRange(aspect_planets) :
           Cardinality(RecordsOf(n)) =
               IF n \in {"Jupiter", "Saturn", "Mars", "Rahu", "Ketu"} THEN 3 ELSE 1
    /\ \A n \in WithHouseInRange(aspect_planets) :
           \A j1, j2 \in RecordsOf(n) :
               j1 # j2 => all_aspects.value[j1].aspect_type # all_aspects.value[j2].aspect_type
    /\ WithHouseInRange(aspect_planets) = PlanetNames => Len(all_aspects.value) = 19

C11_NodesAlwaysLuminariesNeverRetrograde ==
    ChartMade =>
        /\ \A n \in DOMAIN Positions \cap {"Rahu", "Ketu"} : Positions[n].is_retrograde
        /\ \A n \in DOMAIN Positions \cap {"Sun", "Moon"} : ~Positions[n].is_retrograde

\* A chart with the Sun or the Moon in it, to which the ephemeris gave a negative speed.
C11_Witness ==
    /\ ChartMade
    /\ \E n \in DOMAIN Positions \cap {"Sun", "Moon"} :
          sky.bodies[n].speed < 0 /\ ~Positions[n].is_retrograde

(***************************************************************************)
(* C12                                                                     *)
(***************************************************************************)
\* The factors of one type that a correlation result has for a planet.
FactorsFor(result, type, n) ==
    {k \in FactorsOfType(result, type) : result.correlations[k].details.planet = n}

\* The planet is in both charts, with the same rasi name.
SameRasiInBoth(n) ==
    /\ n \in DOMAIN event_chart.planetary_positions
    /\ n \in DOMAIN snapshot_chart.planetary_positions
    /\ event_chart.planetary_positions[n].rasi.name
           = snapshot_chart.planetary_positions[n].rasi.name

\* C12: a result has a planetary_rasi_match for a planet exactly when the planet is
\* in both charts with the same rasi name and the result has no
\* planetary_house_match for it; no planet has both.
C12_RasiMatchOnlyWithoutHouseMatch ==
    Correlated =>
        \A n \in PlanetNames :
            /\ FactorsFor(correlation, "planetary_rasi_match", n) # {}
                   <=> (SameRasiInBoth(n)
                        /\ FactorsFor(correlation, "planetary_house_match", n) = {})
            /\ Cardinality(FactorsFor(correlation, "planetary_rasi_match", n)) <= 1
            /\ ~(FactorsFor(correlation, "planetary_rasi_match", n) # {}
                 /\ FactorsFor(correlation, "planetary_house_match", n) # {})

\* One planet matched by rasi only, and another in the same rasi in both charts
\* that is matched by house and so not by rasi.
C12_Witness ==
    /\ Correlated
    /\ \E n \in PlanetNames : FactorsFor(correlation, "planetary_rasi_match", n) # {}
    /\ \E n \in PlanetNames :
          /\ SameRasiInBoth(n)
          /\ FactorsFor(correlation, "planetary_house_match", n) # {}
          /\ FactorsFor(correlation, "planetary_rasi_match", n) = {}

(***************************************************************************)
(* C13                                                                     *)
(***************************************************************************)
\* 0.5 and the four adjustments a strength record's flags stand for, in hundredths.
SumOfAdjustments(s) ==
    50 + (IF s.exalted THEN 30 ELSE IF s.debilitated THEN -30 ELSE 0)
       + (IF s.own_sign THEN 20 ELSE 0)
       + (IF s.dig_bala THEN 15 ELSE 0)
       - (IF s.combusted THEN 20 ELSE 0)

\* C13: every planet's strength_score is 0.5 plus 0.3 if exalted, else minus 0.3
\* if debilitated, plus 0.2 if own sign, plus 0.15 if dig bala, minus 0.2 if
\* combusted, clamped to [0.0, 1.0]; so it lies in [0.0, 1.0].
C13_ScoreIsClampedSumOfAdjustments ==
    ChartMade =>
        \A n \in DOMAIN Strengths :
            /\ Strengths[n].strength_score
                   = (IF SumOfAdjustments(Strengths[n]) > 100 THEN 100
                      ELSE IF SumOfAdjustments(Strengths[n]) < 0 THEN 0
                      ELSE SumOfAdjustments(Strengths[n]))
            /\ Strengths[n].strength_score \in 0..100

\* One planet whose sum is above 1.0, so that the clamp acts, beside another whose
\* adjustments leave it strictly between 0.5 and 1.0.
C13_Witness ==
    /\ ChartMade
    /\ \E n \in DOMAIN Strengths :
          SumOfAdjustments(Strengths[n]) > 100 /\ Strengths[n].strength_score = 100
    /\ \E n \in DOMAIN Strengths :
          Strengths[n].strength_score = SumOfAdjustments(Strengths[n])
              /\ Strengths[n].strength_score \in 51..99

(***************************************************************************)
(* C14                                                                     *)
(***************************************************************************)
PositionsMade == planets_data # Unused /\ planets_data # Pending

\* C14: every position calculate_planetary_positions produces, whatever longitude
\* the provider answers and whatever the 12 cusps, has its house in 1..12, its rasi
\* number in 1..12, its nakshatra number in 1..27 and its pada in 1..4.
C14_PlacementsInRange ==
    PositionsMade =>
        \A i \in DOMAIN planets_data.value :
            /\ planets_data.value[i].house \in 1..12
            /\ planets_data.value[i].rasi.number \in 1..12
            /\ planets_data.value[i].nakshatra.number \in 1..27
            /\ planets_data.value[i].nakshatra.pada \in 1..4

\* All nine positions were produced although the provider's answer for one body,
\* which the position keeps, is below 0 or from 360 degrees on.
C14_Witness ==
    /\ PositionsMade
    /\ Len(planets_data.value) = 9
    /\ \E i \in DOMAIN planets_data.value :
          planets_data.value[i].longitude < 0 \/ planets_data.value[i].longitude >= Full

(***************************************************************************)
(* C15                                                                     *)
(***************************************************************************)
\* C15: a chart record or a correlation record, once stored, is never overwritten in
\* place: every step leaves every row of event_chart_data and of
\* event_cosmic_correlations as it was, also when the collection and the backfill
\* handle the same event at overlapping times.
C15_StoredRecordsNeverOverwritten ==
    [][/\ \A i \in DOMAIN event_chart_data :
              i \in DOMAIN event_chart_data' /\ event_chart_data'[i] = event_chart_data[i]
       /\ \A i \in DOMAIN event_cosmic_correlations :
              /\ i \in DOMAIN event_cosmic_correlations'
              /\ event_cosmic_correlations'[i] = event_cosmic_correlations[i]]_vars

(***************************************************************************)
(* C16                                                                     *)
(***************************************************************************)
\* The snapshot of the run has been captured.
Captured == pc \notin {"capture", "exit_1"} \/ snapshot_id # 0

\* C16: a collection run captures its snapshot once, before any event is stored or
\* correlated; every correlation of the run is made with the id and the chart of
\* that snapshot, and no step after the capture changes either.
C16_OneSnapshotForTheRun ==
    /\ [](/\ Len(cosmic_snapshots) <= 1
          /\ (events # <<>> \/ event_chart_data # <<>> \/ event_cosmic_correlations # <<>>
                 \/ events_stored > 0 \/ Correlated)
                 => /\ Captured
                    /\ Len(cosmic_snapshots) = 1 /\ cosmic_snapshots[1].id = snapshot_id
          /\ Captured => snapshot_chart = calculate_complete_chart(sky).value
          /\ \A i \in DOMAIN event_cosmic_correlations :
                event_cosmic_correlations[i].snapshot_id = snapshot_id
          /\ Correlated =>
                /\ correlation.snapshot_id = snapshot_id
                /\ correlation
                       = correlate_event_with_snapshot(event_chart, snapshot_chart, snapshot_id))
    /\ [][pc # "capture" =>
             /\ snapshot_id' = snapshot_id
             /\ snapshot_chart' = snapshot_chart
             /\ cosmic_snapshots' = cosmic_snapshots]_vars

\* A run that has stored two correlations, both against its one snapshot.
C16_Witness ==
    /\ pc = "done"
    /\ Len(cosmic_snapshots) = 1
    /\ Len(event_cosmic_correlations) = 2
    /\ \A i \in DOMAIN event_cosmic_correlations :
          event_cosmic_correlations[i].snapshot_id = cosmic_snapshots[1].id

(***************************************************************************)
(* C17                                                                     *)
(***************************************************************************)
Called(outcome) == outcome # Pending /\ outcome # Unused

\* A planet the aspect rules know has a house, and it is outside 1..12.
KnownPlanetOutOfRange(planet_dict) ==
    \E n \in DOMAIN planet_dict \cap DOMAIN ASPECT_RULES :
        "house" \in DOMAIN planet_dict[n] /\ planet_dict[n].house \notin 1..12

\* C17: malformed arguments are rejected with ValueError and no result:
\* get_house_number when the cusp list has not exactly 12 entries,
\* calculate_target_house when from_house is outside 1..12 or offset outside 1..11,
\* calculate_all_aspects when a known planet's house is outside 1..12, and
\* get_aspects_to_house when the house number is outside 1..12.
C17_MalformedArgumentsRaiseValueError ==
    /\ (Called(house_number) /\ Len(house_cusps) # 12)
           => house_number = Raised("ValueError")
    /\ (Called(target_house) /\ (from_house \notin 1..12 \/ offset \notin 1..11))
           => target_house = Raised("ValueError")
    /\ (Called(all_aspects) /\ KnownPlanetOutOfRange(aspect_planets))
           => all_aspects = Raised("ValueError")
    /\ (Called(aspects_to_house) /\ aspects_house_number \notin 1..12)
           => aspects_to_house = Raised("ValueError")

\* All four functions were called with a malformed argument and all four raised.
C17_Witness ==
    /\ Called(house_number) /\ Len(house_cusps) # 12
    /\ Called(target_house) /\ from_house \in 1..12 /\ offset \notin 1..11
    /\ Called(all_aspects) /\ KnownPlanetOutOfRange(aspect_planets)
    /\ Called(aspects_to_house) /\ aspects_house_number \notin 1..12
    /\ {house_number, target_house, all_aspects, aspects_to_house} = {Raised("ValueError")}

(***************************************************************************)
(* C18                                                                     *)
(***************************************************************************)
\* The bodies for which the provider raises or answers nothing, and the planets
\* that are lost with them: Ketu is made from the answer for Rahu.
FailedBodiesOf(eph) == {body \in Bodies : eph.bodies[body].status # "ok"}
LostPlanets(eph) ==
    FailedBodiesOf(eph) \cup (IF "Rahu" \in FailedBodiesOf(eph) THEN {"Ketu"} ELSE {})
\* The same sky with every body answered.
Unfailing(eph) ==
    [eph EXCEPT !.bodies = [body \in Bodies |-> [eph.bodies[body] EXCEPT !.status = "ok"]]]

\* C18: when the provider fails or answers nothing for some bodies, the chart is
\* still produced; exactly the failed bodies are missing from planetary_positions,
\* Ketu exactly when the query of Rahu fails, and the records of the other planets
\* are those of the chart in which nothing fails.
C18_FailedBodiesAloneAreMissing ==
    Called(chart) =>
        /\ sky.houses_ok => chart.status = "ok"
        /\ ChartMade =>
              /\ DOMAIN Positions = PlanetNames \ LostPlanets(sky)
              /\ \A n \in DOMAIN Positions :
                    Positions[n]
                        = calculate_complete_chart(Unfailing(sky)).value.planetary_positions[n]

\* A chart made although the query of Rahu failed: Rahu and Ketu alone are missing.
C18_Witness ==
    /\ ChartMade
    /\ "Rahu" \in FailedBodiesOf(sky)
    /\ DOMAIN Positions = PlanetNames \ {"Rahu", "Ketu"}

(***************************************************************************)
(* C19                                                                     *)
(***************************************************************************)
\* The labels from the lowest to the highest.
LabelRank(label) ==
    CASE label = "Low" -> 1
      [] label = "Medium" -> 2
      [] label = "High" -> 3
      [] label = "Very High" -> 4

C20_StrengthForEveryPlanetNodesNeutral ==
    ChartMade =>
        /\ DOMAIN Strengths = DOMAIN Positions
        /\ DOMAIN Positions = PlanetNames => Cardinality(DOMAIN Strengths) = 9
        /\ \A n \in DOMAIN Strengths \cap {"Rahu", "Ketu"} :
              Strengths[n] = [exalted |-> FALSE, debilitated |-> FALSE, own_sign |-> FALSE,
                              dig_bala |-> FALSE, combusted |-> FALSE, strength_score |-> 50]

\* A complete chart with Rahu less than 7 degrees from the Sun, where any other
\* planet would be combusted.
C20_Witness ==
    /\ ChartMade
    /\ DOMAIN Positions = PlanetNames
    /\ Cardinality(DOMAIN Strengths) = 9
    /\ CircularDiff(Positions["Rahu"].longitude, Positions["Sun"].longitude) < 7 * Deg
    /\ ~Strengths["Rahu"].combusted /\ Strengths["Rahu"].strength_score = 50

HousesInRange(planet_dict) ==
    \A n \in AspectingPlanets(planet_dict) :
        1 <= planet_dict[n].house /\ planet_dict[n].house <= 12
HousesInRangeInBoth ==
    /\ HousesInRange(event_chart.planetary_positions)
    /\ HousesInRange(snapshot_chart.planetary_positions)

\* The planet is in both charts, with a house, and the two houses differ.
InDifferentHouses(n) ==
    /\ n \in AspectingPlanets(event_chart.planetary_positions)
    /\ n \in AspectingPlanets(snapshot_chart.planetary_positions)
    /\ event_chart.planetary_positions[n].house
           # snapshot_chart.planetary_positions[n].house

\* A planet has aspect_match factors exactly when it has a planetary_house_match,
\* and then one for each of its offsets; in different houses it has none.
AspectMatchesFollowHouseMatch(n) ==
    LET aspect_factors == FactorsFor(correlation, "aspect_match", n)
        house_factors == FactorsFor(correlation, "planetary_house_match", n)
    IN  /\ aspect_factors # {} <=> house_factors # {}
        /\ house_factors # {} =>
              /\ Cardinality(aspect_factors) = Len(ASPECT_RULES[n])
              /\ \A k \in DOMAIN ASPECT_RULES[n] :
                    Cardinality({f \in aspect_factors :
                        /\ correlation.correlations[f].details.aspect_type
                               = get_aspect_type_name(n, ASPECT_RULES[n][k])
                        /\ correlation.correlations[f].details.target_house
                               = calculate_target_house(
                                     event_chart.planetary_positions[n].house,
                                     ASPECT_RULES[n][k]).value}) = 1
        /\ InDifferentHouses(n) => aspect_factors = {}

C23_OutOfRangeHouseIsReported ==
    (Correlated /\ ~HousesInRangeInBoth) => "error" \in DOMAIN correlation

(***************************************************************************)
(* Specification of api_server.is_retrograde                               *)
(***************************************************************************)
\* Sidereal longitudes at the moment asked about, and how far on the planet is
\* found six hours later: nowhere, a step either way, and half a turn either way,
\* to a unit more and a unit less.
RetrogradeStarts == {0, 1, 90 * Deg, 180 * Deg, 200 * Deg, Full - 1}
RetrogradeSteps ==
    LET steps == {0, 1, SpeedUnit \div 4, 180 * Deg - 1, 180 * Deg, 180 * Deg + 1}
    IN  steps \cup {0 - d : d \in steps}
RetrogradeBodies(body) ==
    {BodyAt(at, SpeedUnit, (at + d) % Full) :
        at \in RetrogradeStarts, d \in RetrogradeSteps}
        \cup FailedBodies(body, 1)
RetrogradeSkies ==
    UNION {{[BaseSky(1, 1) EXCEPT !.bodies[body] = rb] : rb \in RetrogradeBodies(body)} :
              body \in Bodies}

InitRetrograde ==
    /\ sky \in RetrogradeSkies
    /\ planet_num \in PlanetNames
    /\ retrograde = Pending
    /\ planets_data = Unused /\ chart = Unused /\ daily = Unused
    /\ update_pc = Unused /\ planetary_data = Unused /\ records = Unused
    /\ record_index = Unused /\ updated_count = Unused /\ error_count = Unused
    /\ TargetUnused /\ HouseUnused /\ AspectUnused /\ CorrUnused /\ RunUnused
    /\ BackfillUnused

IsRetrograde ==
    /\ retrograde = Pending
    /\ retrograde' = is_retrograde(sky, planet_num)
    /\ UNCHANGED <<planet_num, chartVars, targetVars, houseVars, aspectVars, corrVars,
                   mainVars, tableVars, backfillVars, updateVars>>

NextRetrograde == IsRetrograde
SpecRetrograde == InitRetrograde /\ [][NextRetrograde]_vars

(***************************************************************************)
(* C24                                                                     *)
(***************************************************************************)
\* The planets whose flag is_retrograde takes from the two longitudes.
MovingPlanets == {"Mercury", "Venus", "Mars", "Jupiter", "Saturn"}
\* Both queries of the provider answered.
BothLongitudesKnown ==
    /\ planet_num \in MovingPlanets
    /\ sky.bodies[planet_num].status = "ok"
    /\ sky.bodies[planet_num].later_status = "ok"
\* long2 - long1 brought into (-180, 180].
NormalizedDifference ==
    LET flags == {FLG_SIDEREAL, FLG_SWIEPH}
        long1 == calc_ut(sky, planet_num, flags).value[1].longitude
        long2 == calc_ut_later(sky, planet_num, flags).value[1].longitude
        d == (long2 - long1) % Full
    IN  IF d > 180 * Deg THEN d - Full ELSE d

\* C24: is_retrograde brings the difference between the longitude six hours
\* later and the longitude now into (-180, 180] before it tests the sign, for every
\* pair of longitudes in [0, 360): the answer is retrograde if and only if that
\* difference is negative.
C24_RetrogradeIffNormalizedDifferenceNegative ==
    (retrograde # Pending /\ BothLongitudesKnown) =>
        retrograde = Returned(NormalizedDifference < 0)

(***************************************************************************)
(* C25                                                                     *)
(***************************************************************************)
\* 0.5 and the adjustments of a strength record, the one for debilitation taken
\* whether or not the record is exalted.
SumWithDebilitationAlways(s) ==
    50 + (IF s.exalted THEN 30 ELSE 0) - (IF s.debilitated THEN 30 ELSE 0)
       + (IF s.own_sign THEN 20 ELSE 0)
       + (IF s.dig_bala THEN 15 ELSE 0)
       - (IF s.combusted THEN 20 ELSE 0)

\* C25: no strength record has exalted and debilitated both true: the two windows
\* of 5 degrees either side of a planet's exaltation and debilitation degrees are
\* more than 10 degrees apart, so the else before the deduction for debilitation
\* never leaves a debilitation out of the score.
C25_NeverExaltedAndDebilitated ==
    /\ DOMAIN EXALTATION = DOMAIN DEBILITATION
    /\ \A n \in DOMAIN EXALTATION :
          CircularDiff(EXALTATION[n], DEBILITATION[n]) > 10 * Deg
    /\ ChartMade =>
          \A n \in DOMAIN Strengths :
              /\ ~(Strengths[n].exalted /\ Strengths[n].debilitated)
              /\ Strengths[n].strength_score
                     = Max(0, Min(100, SumWithDebilitationAlways(Strengths[n])))

\* A planet on the edge of its debilitation window, debilitated and not exalted,
\* with the 0.3 taken off its score.
C25_Witness ==
    /\ ChartMade
    /\ \E n \in DOMAIN Strengths \cap DOMAIN DEBILITATION :
          /\ CircularDiff(Positions[n].longitude, DEBILITATION[n]) = 5 * Deg
          /\ Strengths[n].debilitated /\ ~Strengths[n].exalted
          /\ Strengths[n].strength_score
                 = 20 + (IF Strengths[n].own_sign THEN 20 ELSE 0)
                      + (IF Strengths[n].dig_bala THEN 15 ELSE 0)
                      - (IF Strengths[n].combusted THEN 20 ELSE 0)

(***************************************************************************)
(* C26                                                                     *)
(***************************************************************************)
\* The distance of two longitudes the shorter way round, in [0, 180].
CircularDistance(a, b) ==
    LET d == ((a % Full) - (b % Full)) % Full
    IN  IF d <= 180 * Deg THEN d ELSE Full - d
\* 7 degrees for Mercury and Venus and 8.5 degrees for the others.
CombustionOrb(n) == IF n \in {"Mercury", "Venus"} THEN 7 * Deg ELSE (17 * Deg) \div 2
DistanceToSun(n) ==
    CircularDistance(Positions[n].longitude, Positions["Sun"].longitude)

\* C26: combusted is true exactly when the planet is not Sun, Rahu or Ketu, the Sun
\* is among the positions, and the distance round the circle between the planet
\* and the Sun is strictly below the orb, 7 degrees for Mercury and Venus and 8.5
\* degrees for Moon, Mars, Jupiter and Saturn; at the orb itself it is false.
C26_CombustedIffWithinOrbOfSun ==
    ChartMade =>
        \A n \in DOMAIN Strengths :
            Strengths[n].combusted
                <=> (/\ n \in {"Moon", "Mars", "Mercury", "Jupiter", "Venus", "Saturn"}
                     /\ "Sun" \in DOMAIN Positions
                     /\ DistanceToSun(n) < CombustionOrb(n))

\* A planet at its orb from the Sun, not combusted.
C26_Witness ==
    /\ ChartMade /\ "Sun" \in DOMAIN Positions
    /\ \E n \in DOMAIN Strengths \ {"Sun", "Rahu", "Ketu"} :
          DistanceToSun(n) = CombustionOrb(n) /\ ~Strengths[n].combusted

(***************************************************************************)
(* C27                                                                     *)
(***************************************************************************)
\* The test of lines 203-209 for house k: the longitude is from cusp k on and
\* before cusp k + 1, or, where the next cusp is the lower, on either side of 0.
IntervalHolds(lon, cusps, k) ==
    LET current_cusp == cusps[k] % Full
        next_cusp == cusps[(k % 12) + 1] % Full
        planet_long == lon % Full
    IN  IF next_cusp < current_cusp
        THEN planet_long >= current_cusp \/ planet_long < next_cusp
        ELSE current_cusp <= planet_long /\ planet_long < next_cusp
NoIntervalHolds(lon, cusps) ==
    Len(cusps) = 12 /\ \A k \in 1..12 : ~IntervalHolds(lon, cusps, k)

\* C27: when no house interval contains the longitude, get_house_number returns
\* house 1 and raises no error; that happens with malformed cusps only, never with
\* 12 distinct cusps in increasing circular order.
C27_NoIntervalGivesHouseOne ==
    (house_number # Pending /\ house_number # Unused) =>
        /\ NoIntervalHolds(planet_longitude, house_cusps) => house_number = Returned(1)
        /\ WellFormedCusps(house_cusps) => ~NoIntervalHolds(planet_longitude, house_cusps)

\* Twelve equal cusps: no interval holds the longitude, and house 1 is returned.
C27_Witness ==
    /\ house_cusps = [k \in 1..12 |-> 10 * Deg]
    /\ NoIntervalHolds(planet_longitude, house_cusps)
    /\ house_number = Returned(1)

(***************************************************************************)
(* C28                                                                     *)
(***************************************************************************)
\* Both charts have a position for Rahu and one for Ketu.
NodesInBoth ==
    {"Rahu", "Ketu"} \subseteq
        (DOMAIN event_chart.planetary_positions \cap DOMAIN snapshot_chart.planetary_positions)

\* C28: for two assembled charts that both contain Rahu and Ketu the result has a
\* retrograde_match for Rahu and one for Ketu, so the correlation_score is at
\* least 0.2 and never 0, however different the charts are.
C28_NodesAlwaysMatchRetrograde ==
    (Correlated /\ NodesInBoth) =>
        /\ Cardinality(FactorsFor(correlation, "retrograde_match", "Rahu")) = 1
        /\ Cardinality(FactorsFor(correlation, "retrograde_match", "Ketu")) = 1
        /\ correlation.correlation_score >= 20

\* Two charts of different moments: the only retrograde matches are those of the
\* nodes, which with one more factor of 0.05 make a score of 0.25.
C28_Witness ==
    /\ Correlated /\ NodesInBoth
    /\ event_chart.planetary_positions # snapshot_chart.planetary_positions
    /\ Cardinality(FactorsOfType(correlation, "retrograde_match")) = 2
    /\ FactorsFor(correlation, "retrograde_match", "Rahu") # {}
    /\ FactorsFor(correlation, "retrograde_match", "Ketu") # {}
    /\ Len(correlation.correlations) = 3
    /\ correlation.correlation_score = 25

(***************************************************************************)
(* C29                                                                     *)
(***************************************************************************)
\* C29: the count of events stored that a collection run reports at its end is
\* the number of events whose insert into the events table succeeded; an event
\* whose insert failed or raised is not counted.
C29_EventsStoredCountsInsertedEvents ==
    pc = "done" => events_stored = Len(events)

(***************************************************************************)
(* scripts/update_retrograde_status                                        *)
(*                                                                         *)
(* A row of planetary_data has an id, a date and the column                *)
(* planetary_data, a dict that holds the list planets or does not.         *)
(***************************************************************************)
\* Lines 40-61.  The planets of the argument are changed in place, and the
\* argument is handed back.
fix_retrograde_status(planetary_data_dict) ==
    IF "planets" \notin DOMAIN planetary_data_dict.planetary_data
    THEN planetary_data_dict
    ELSE [planetary_data_dict EXCEPT !.planetary_data.planets =
             [k \in DOMAIN @ |->
                 IF @[k].name \in {"Rahu", "Ketu"} THEN [@[k] EXCEPT !.is_retrograde = TRUE]
                 ELSE IF @[k].name \in {"Sun", "Moon"}
                 THEN [@[k] EXCEPT !.is_retrograde = FALSE]
                 ELSE @[k]]]

\* Lines 124-125: name to flag, for the planets of a column value.
RetrogradeByName(column) ==
    LET planets == Get(column, "planets", <<>>)
    IN  [n \in {planets[k].name : k \in DOMAIN planets} |->
            planets[CHOOSE k \in DOMAIN planets :
                       planets[k].name = n
                       /\ \A j \in DOMAIN planets : planets[j].name = n => j <= k].is_retrograde]

\* Lines 127-131: the planets among the four whose flag the fix has changed.
ChangesBetween(original_planets, fixed_planets) ==
    {n \in {"Rahu", "Ketu", "Sun", "Moon"} :
        /\ n \in DOMAIN original_planets /\ n \in DOMAIN fixed_planets
        /\ original_planets[n] # fixed_planets[n]}

\* Lines 63-73: the row with the id is given the column value; a raise and an
\* answer without data give False.
update_planetary_data_record(table, record_id, fixed_data) ==
    {[success |-> outcome = "ok",
      planetary_data |->
          IF outcome = "ok"
          THEN [k \in DOMAIN table |->
                   IF table[k].id = record_id
                   THEN [table[k] EXCEPT !.planetary_data = fixed_data.planetary_data]
                   ELSE table[k]]
          ELSE table] : outcome \in InsertOutcomes}

(***************************************************************************)
(* Specification of a run of update_retrograde_status (main, lines 75-148) *)
(***************************************************************************)
\* The most rows the table holds.
MaxRecords == 2
\* The dates of the rows and of --date.
RecordDates == {1, 2}

PlanetFlag(n, flag) == [name |-> n, is_retrograde |-> flag]
\* Column values as they are found stored: right, with the nodes not retrograde, with
\* the Sun and the Moon retrograde, with all four wrong, with planets that lack
\* three of the four, and the empty dict, without the list.
StoredColumns ==
    {[planets |-> <<PlanetFlag("Sun", s), PlanetFlag("Moon", s), PlanetFlag("Mars", TRUE),
                    PlanetFlag("Rahu", r), PlanetFlag("Ketu", r)>>] : s, r \in BOOLEAN}
        \cup {[planets |-> <<PlanetFlag("Mars", FALSE), PlanetFlag("Ketu", FALSE)>>]}
        \cup {<<>>}
PlanetaryDataTables ==
    UNION {{[k \in 1..len |-> [id |-> k, date |-> dates[k], planetary_data |-> columns[k]]] :
               dates \in [1..len -> RecordDates], columns \in [1..len -> StoredColumns]} :
           len \in 0..MaxRecords}

\* The command line: --date (0 when it is not given) and --all.
UpdateArgs == [date : {0} \cup RecordDates, all : BOOLEAN]

InitUpdate ==
    /\ planetary_data \in PlanetaryDataTables
    /\ update_pc = "fetch"
    /\ records = <<>> /\ record_index = 0
    /\ updated_count = 0 /\ error_count = 0
    /\ TargetUnused /\ HouseUnused /\ ChartUnused /\ AspectUnused /\ CorrUnused /\ RunUnused
    /\ BackfillUnused
    /\ RetroUnused

updateOthers == <<targetVars, houseVars, chartVars, aspectVars, corrVars, mainVars, tableVars,
                  backfillVars, retroVars>>

\* Lines 87-105: the rows of the date, or all rows, are read; with neither flag the
\* script exits with code 1, with no row it returns, and a query that raises ends
\* it with the exception.
FetchRecords ==
    /\ update_pc = "fetch"
    /\ \E args \in UpdateArgs, query \in {"ok", "raise"} :
          LET fetched == IF args.date # 0
                         THEN SelectSeq(planetary_data, LAMBDA row : row.date = args.date)
                         ELSE planetary_data
          IN  IF args.date = 0 /\ ~args.all
              THEN update_pc' = "exit_1" /\ UNCHANGED <<records, record_index>>
              ELSE IF query = "raise"
              THEN update_pc' = "raised" /\ UNCHANGED <<records, record_index>>
              ELSE /\ records' = fetched
                   /\ IF fetched = <<>>
                      THEN update_pc' = "done" /\ UNCHANGED record_index
                      ELSE update_pc' = "loop" /\ record_index' = 1
    /\ UNCHANGED <<planetary_data, updated_count, error_count, updateOthers>>

\* Lines 110-144: one record.  fixed_data is made around planetary_data itself,
\* the column value of the record, so what fix_retrograde_status changes in place
\* is changed in planetary_data and in the record too: original_planets, read after
\* the call, has the fixed flags.
UpdateRecord ==
    /\ update_pc = "loop"
    /\ LET record == records[record_index]
           fixed_data == fix_retrograde_status([planetary_data |-> record.planetary_data])
           planetary_data_after == fixed_data.planetary_data
           original_planets == RetrogradeByName(planetary_data_after)
           fixed_planets == RetrogradeByName(fixed_data.planetary_data)
           changes == ChangesBetween(original_planets, fixed_planets)
       IN  /\ records' = [records EXCEPT ![record_index].planetary_data = planetary_data_after]
           /\ IF changes # {}
              THEN \E r \in update_planetary_data_record(planetary_data, record.id, fixed_data) :
                      /\ planetary_data' = r.planetary_data
                      /\ IF r.success
                         THEN updated_count' = updated_count + 1 /\ UNCHANGED error_count
                         ELSE error_count' = error_count + 1 /\ UNCHANGED updated_count
              ELSE UNCHANGED <<planetary_data, updated_count, error_count>>
    /\ IF record_index < Len(records)
       THEN record_index' = record_index + 1 /\ UNCHANGED update_pc
       ELSE update_pc' = "done" /\ UNCHANGED record_index
    /\ UNCHANGED updateOthers

NextUpdate == FetchRecords \/ UpdateRecord
SpecUpdate == InitUpdate /\ [][NextUpdate]_vars

(***************************************************************************)
(* C30                                                                     *)
(***************************************************************************)
\* The row of the table with the id.
StoredRow(id) == planetary_data[CHOOSE k \in DOMAIN planetary_data : planetary_data[k].id = id]
\* In the column value Rahu and Ketu are retrograde and Sun and Moon are not.
NodesAndLuminariesRight(column) ==
    \A k \in DOMAIN Get(column, "planets", <<>>) :
        /\ column.planets[k].name \in {"Rahu", "Ketu"} => column.planets[k].is_retrograde
        /\ column.planets[k].name \in {"Sun", "Moon"} => ~column.planets[k].is_retrograde

\* C30: after a run of update_retrograde_status without an error, every record
\* fetched is stored with Rahu and Ketu retrograde and Sun and Moon not retrograde:
\* the records that had it otherwise have been written back.
C30_FetchedRecordsAreFixedInTheTable ==
    (update_pc = "done" /\ error_count = 0) =>
        \A i \in DOMAIN records :
            NodesAndLuminariesRight(StoredRow(records[i].id).planetary_data)
====
